---------------------------- MODULE Spec2Model ----------------------------
(***************************************************************************)
(* A model of src/index.js (appwrite-database-cloner): the paginated       *)
(* fetch-all loops, the document sanitizer, the schema replicator, the     *)
(* missing-record diff and the orchestration of one run.                   *)
(*                                                                         *)
(* JavaScript values are encoded as records of one shape,                  *)
(*     [t |-> tag, s |-> string, kids |-> sequence of <<key, value>>]      *)
(* with tag "null" (null or undefined), "str" (a string, s its text),      *)
(* "arr" (an array: kids are <<"", item>> in index order) and "obj" (a     *)
(* plain object: kids are its <<key, value>> entries in insertion order,   *)
(* the order of Object.entries and of JSON.stringify).  A "json" value is  *)
(* the string JSON.stringify returns, kept as the value it serialises.     *)
(***************************************************************************)
EXTENDS Integers, Sequences, FiniteSets, TLC

(***************************************************************************)
(* Bounds of the model.                                                    *)
(***************************************************************************)
MaxDepth == 3
MaxDocs == 3
MaxItems == 4
MaxPage == 3

(***************************************************************************)
(* JavaScript values.                                                      *)
(***************************************************************************)
Null == [t |-> "null", s |-> "", kids |-> <<>>]

Str(x) == [t |-> "str", s |-> x, kids |-> <<>>]

Arr(items) == [t |-> "arr", s |-> "", kids |-> [i \in 1..Len(items) |-> <<"", items[i]>>]]

Obj(entries) == [t |-> "obj", s |-> "", kids |-> entries]

Items(v) == [i \in 1..Len(v.kids) |-> v.kids[i][2]]

Keys(v) == {v.kids[i][1] : i \in 1..Len(v.kids)}

\* key in obj
HasKey(v, k) == v.t = "obj" /\ k \in Keys(v)

\* obj[k]: the value of the entry, undefined (Null) when there is none
Get(v, k) ==
    IF HasKey(v, k)
    THEN v.kids[CHOOSE i \in 1..Len(v.kids) : v.kids[i][1] = k][2]
    ELSE Null

\* typeof v === 'object' && v !== null && !Array.isArray(v)
IsPlainObject(v) == v.t = "obj"

\* the truthiness test of `if (v)`: null, undefined and '' are falsy
Truthy(v) == ~(v.t = "null" \/ (v.t = "str" /\ v.s = ""))

(***************************************************************************)
(* Document sanitizer.                                                     *)
(***************************************************************************)
systemFields ==
    {"$id", "$collectionId", "$databaseId", "$createdAt", "$updatedAt",
     "$permissions", "$sequence"}

isRelatedDocument(obj) ==
    IsPlainObject(obj) /\ HasKey(obj, "$id") /\ HasKey(obj, "$collectionId")

UserEntriesButOneSystemField(v) ==
    LET reserved == {i \in 1..Len(v.kids) : v.kids[i][1] \in systemFields}
        first == CHOOSE i \in reserved : \A j \in reserved : i <= j
    IN  IF reserved = {} THEN v.kids
        ELSE [i \in 1..(Len(v.kids) - 1) |->
                 IF i < first THEN v.kids[i] ELSE v.kids[i + 1]]

\* the entries of a loop `for ([key, value] of Object.entries(o)) if (!systemFields.includes(key))`
UserEntries(v) == SelectSeq(v.kids, LAMBDA e : e[1] \notin systemFields)

RECURSIVE cleanNestedObject(_)
cleanNestedObject(obj) ==
    LET CleanItem(item) ==
            IF IsPlainObject(item) THEN cleanNestedObject(item) ELSE item
        CleanValue(value) ==
            IF IsPlainObject(value) THEN cleanNestedObject(value)
            ELSE IF value.t = "arr"
                 THEN Arr([i \in 1..Len(value.kids) |-> CleanItem(value.kids[i][2])])
                 ELSE value
        kept == UserEntries(obj)
    IN  Obj([i \in 1..Len(kept) |-> <<kept[i][1], CleanValue(kept[i][2])>>])

cleanDocumentData(document) ==
    LET CleanItem(item) ==
            IF isRelatedDocument(item) THEN Get(item, "$id")
            ELSE IF IsPlainObject(item) THEN cleanNestedObject(item)
                 ELSE item
        CleanValue(value) ==
            IF value.t = "arr"
            THEN Arr([i \in 1..Len(value.kids) |-> CleanItem(value.kids[i][2])])
            ELSE IF isRelatedDocument(value) THEN Get(value, "$id")
                 ELSE IF IsPlainObject(value) THEN cleanNestedObject(value)
                      ELSE value
        kept == UserEntries(document)
    IN  Obj([i \in 1..Len(kept) |-> <<kept[i][1], CleanValue(kept[i][2])>>])

(***************************************************************************)
(* The documents the sanitizer is checked on: a field "f" holding every    *)
(* value built, to depth MaxDepth, from a string, null, arrays, plain      *)
(* objects, objects that carry service metadata and relationship           *)
(* expansions.                                                             *)
(***************************************************************************)
Related(id, inner) ==
    Obj(<< <<"$id", Str(id)>>, <<"$collectionId", Str("c9")>>, <<"g", inner>> >>)

RECURSIVE ValuesOfDepth(_)
ValuesOfDepth(n) ==
    IF n = 0
    THEN {Str("x"), Null}
    ELSE LET below == ValuesOfDepth(n - 1)
         IN  below
             \cup {Arr(<<v>>) : v \in below}
             \cup {Arr(<<Related("r1", Str("x")), v>>) : v \in {Related("r2", Null)}}
             \cup {Obj(<< <<"g", v>> >>) : v \in below}
             \cup {Obj(<< <<"$createdAt", Str("t")>>, <<"g", v>> >>) : v \in below}
             \cup {Related("r1", v) : v \in below}

SanitizerInputs ==
    {Obj(<< <<"$id", Str("d1")>>, <<"$sequence", Str("1")>>, <<"f", v>> >>) :
        v \in ValuesOfDepth(MaxDepth)}

(***************************************************************************)
(* The remote listing endpoints.  A listing holds items with distinct,     *)
(* non-empty keys (positive numbers here) in a fixed order; a request      *)
(* returns at most `limit` items, those after the item whose key is the    *)
(* cursor, or the first ones without a cursor.                             *)
(***************************************************************************)
NoCursor == 0

PositionOf(list, key) ==
    IF \E i \in 1..Len(list) : list[i] = key
    THEN CHOOSE i \in 1..Len(list) : list[i] = key
    ELSE 0

ListPage(list, cursor, lim) ==
    LET from == IF cursor = NoCursor THEN 0 ELSE PositionOf(list, cursor)
        upto == IF from + lim < Len(list) THEN from + lim ELSE Len(list)
    IN  SubSeq(list, from + 1, upto)

\* every sequence of distinct keys out of 1..MaxItems, of length 0..n
RECURSIVE DistinctSeqs(_)
DistinctSeqs(n) ==
    IF n = 0
    THEN {<<>>}
    ELSE LET shorter == DistinctSeqs(n - 1)
             longest == {q \in shorter : Len(q) = n - 1}
         IN  shorter \cup
             UNION {{Append(q, k) : k \in (1..MaxItems) \ {q[j] : j \in 1..Len(q)}} :
                        q \in longest}

(***************************************************************************)
(* State.                                                                  *)
(***************************************************************************)
VARIABLES
    \* the sanitizer applied to one document
    sanDocument, sanCleaned, sanDone,
    \* one fetch-all traversal: the remote listing, Query.limit, and the locals
    \* of fetchAllDocuments, and what the call has delivered to its caller
    listing, limit, fetched, lastId, hasMore, requests, pageOutcome,
    \* the remote service: the source database and the destination database
    source, sourceExists, destExists, destAtStart,
    destCollections, destAttributes, destIndexes, destDocuments,
    \* the run: position, process exit code, selected mode, remote calls issued
    \* so far with their outcome (of the readiness polls, the failed ones),
    \* remote errors so far, identifiers ID.unique() has handed out
    pc, exitCode, cloneMode, calls, failures, unique, runs,
    \* the databases whose getDatabaseInfo call main is still awaiting
    outstanding,
    \* locals of dropDestinationCollections, cloneDatabase,
    \* cloneCollectionStructure, createAttributes/createIndexes, waitFor*
    dropQueue, collections, ci, attributes, indexes, k, acc, attrResult,
    idxResult, retries, results, collectionDocs, cacheFile, processQueue, di

sanVars == <<sanDocument, sanCleaned, sanDone>>

pageVars == <<listing, limit, fetched, lastId, hasMore, requests, pageOutcome>>

remoteVars ==
    <<source, sourceExists, destExists, destAtStart, destCollections,
      destAttributes, destIndexes, destDocuments>>

runVars ==
    <<pc, exitCode, cloneMode, calls, failures, unique, runs, outstanding,
      dropQueue, collections, ci, attributes, indexes, k, acc, attrResult, idxResult,
      retries, results, collectionDocs, cacheFile, processQueue, di>>

vars == <<sanVars, pageVars, remoteVars, runVars>>

(***************************************************************************)
(* The sanitizer on one document.                                          *)
(***************************************************************************)
SanIdle == sanDocument = Null /\ sanCleaned = Null /\ sanDone = FALSE

Sanitize ==
    /\ ~sanDone
    /\ sanCleaned' = cleanDocumentData(sanDocument)
    /\ sanDone' = TRUE
    /\ UNCHANGED <<sanDocument, pageVars, remoteVars, runVars>>

\* the sanitizer applied to a document it has already sanitized
SanitizeAgain ==
    /\ sanDone
    /\ sanDocument' = sanCleaned
    /\ sanCleaned' = cleanDocumentData(sanCleaned)
    /\ UNCHANGED <<sanDone, pageVars, remoteVars, runVars>>

(***************************************************************************)
(* One fetch-all traversal (fetchAllDocuments; fetchAllCollections,        *)
(* fetchAllAttributes and fetchAllIndexes are the same loop with the       *)
(* limit 100 and the cursor key $id or key).                               *)
(***************************************************************************)
\* the call has not returned
Pending == [status |-> "pending", value |-> <<>>]

\* return documents
Returned(documents) == [status |-> "returned", value |-> documents]

RejectedWithPartial(documents) == [status |-> "returned", value |-> documents]

\* the awaited list request rejects: the loop has no try block, the rejection
\* leaves fetchAllDocuments with the accumulated array
Rejected(documents) == [status |-> "thrown", value |-> <<>>]

PageIdle ==
    /\ listing = <<>>
    /\ limit = 1
    /\ fetched = <<>>
    /\ lastId = NoCursor
    /\ hasMore = FALSE
    /\ requests = 0
    /\ pageOutcome = Pending

IsLastPageOffByOne(response, lim) == Len(response) <= lim

IsLastPageWhenEmpty(response, lim) == Len(response) = 0

\* response.documents.length < config.batchSize
IsLastPage(response, lim) == Len(response) < lim

CursorStays(response, previous) == previous

\* lastId = response.documents[response.documents.length - 1].$id
CursorAfter(response, previous) == response[Len(response)]

FetchPage ==
    /\ hasMore
    /\ pageOutcome = Pending
    /\ requests' = requests + 1
    /\ \E ok \in BOOLEAN :
        LET response == ListPage(listing, lastId, limit)
        IN  IF ~ok
            THEN /\ pageOutcome' = Rejected(fetched)
                 /\ UNCHANGED <<fetched, hasMore, lastId>>
            ELSE /\ fetched' = fetched \o response
                 /\ IF IsLastPage(response, limit)
                    THEN /\ hasMore' = FALSE /\ lastId' = lastId
                         /\ pageOutcome' = Returned(fetched')
                    ELSE /\ hasMore' = TRUE
                         /\ lastId' = CursorAfter(response, lastId)
                         /\ pageOutcome' = pageOutcome
    /\ UNCHANGED <<listing, limit, sanVars, remoteVars, runVars>>

(***************************************************************************)
(* Missing-record detection.                                               *)
(***************************************************************************)
NoField == ""

\* identifierMap[collectionId] || null
getUniqueIdentifierField(collectionId) ==
    CASE collectionId = "packaging_records" -> "waybill_number"
      [] collectionId = "packaging_items" -> "packaging_record_id"
      [] OTHER -> NoField

\* JSON.stringify(v): a string that determines v, entries in insertion order
JSONstringify(v) == [t |-> "json", s |-> "", kids |-> << <<"", v>> >>]

\* A JavaScript Set compares strings by value and objects and arrays by
\* reference; the documents of two listings share no reference, so an object
\* or array is never found.
IsPrimitive(v) == v.t \in {"null", "str", "json"}

SetHas(set, v) == IsPrimitive(v) /\ v \in set

ExistingKeyUnsanitized(doc, identifierField) ==
    IF identifierField # NoField /\ Truthy(Get(doc, identifierField))
    THEN Get(doc, identifierField)
    ELSE JSONstringify(doc)

\* the key buildExistingRecordSet adds for a destination document
ExistingKey(doc, identifierField) ==
    IF identifierField # NoField /\ Truthy(Get(doc, identifierField))
    THEN Get(doc, identifierField)
    ELSE JSONstringify(cleanDocumentData(doc))

buildExistingRecordSet(existingDocs, collectionId) ==
    LET identifierField == getUniqueIdentifierField(collectionId)
    IN  [existingSet |->
             {ExistingKey(existingDocs[j], identifierField) : j \in 1..Len(existingDocs)},
         identifierField |-> identifierField]

isDocumentMissingByContent(document, existingSet, identifierField) ==
    ~SetHas(existingSet, JSONstringify(cleanDocumentData(document)))

isDocumentMissing(document, existingSet, identifierField) ==
    IF identifierField # NoField /\ Truthy(Get(document, identifierField))
    THEN ~SetHas(existingSet, Get(document, identifierField))
    ELSE ~SetHas(existingSet, JSONstringify(cleanDocumentData(document)))

(***************************************************************************)
(* The remote service.                                                     *)
(***************************************************************************)
MaxIndexRetries == 60
MaxAttributeRetriesAsForIndexes == MaxIndexRetries
MaxAttributeRetries == 30
MaxFailures == 1
MaxRuns == 2

Modes == {"full", "structure-only", "data-only", "missing-only", "export-csv"}

CollectionIds == {"packaging_records", "notes", "old"}

Attribute(key, type, side) == [key |-> key, type |-> type, side |-> side]

KnownTypes ==
    {"string", "integer", "float", "double", "boolean", "datetime", "email",
     "ip", "url", "enum", "relationship"}

SourceDoc(id, waybill, note) ==
    Obj(<< <<"$id", Str(id)>>, <<"$collectionId", Str("packaging_records")>>,
           <<"$createdAt", Str("t")>>, <<"waybill_number", waybill>>,
           <<"note", Str(note)>> >>)

NoteDoc(id, body) ==
    Obj(<< <<"$id", Str(id)>>, <<"$collectionId", Str("notes")>>,
           <<"body", Str(body)>>,
           <<"record", Related("s1", Str("w1"))>> >>)

PackagingRecords ==
    [id |-> "packaging_records",
     attributes |-> << Attribute("notes", "relationship", "child"),
                       Attribute("waybill_number", "string", "") >>,
     indexes |-> << [key |-> "idx_waybill", attributes |-> <<"waybill_number">>] >>,
     documents |-> << SourceDoc("s1", Str("w1"), "x"), SourceDoc("s2", Str("w2"), "y") >>]

Notes ==
    [id |-> "notes",
     attributes |-> << Attribute("record", "relationship", "parent"),
                       Attribute("place", "point", "") >>,
     indexes |-> <<>>,
     documents |-> << NoteDoc("s3", "hello") >>]

Sources == {<<>>, <<PackagingRecords>>, <<PackagingRecords, Notes>>}

\* what the destination returns for a document created with the fields `data`
Stored(id, collectionId, data) ==
    Obj(<< <<"$id", Str(id)>>, <<"$collectionId", Str(collectionId)>>,
           <<"$databaseId", Str("dest")>> >> \o data.kids)

UniqueIds == <<"u1", "u2", "u3", "u4", "u5", "u6", "u7", "u8", "u9", "u10", "u11", "u12">>

NoDocuments == [c \in CollectionIds |-> <<>>]

\* a destination as an earlier run left it, and destinations with other content
Destinations ==
    {[collections |-> <<>>, documents |-> NoDocuments],
     [collections |-> <<"old">>, documents |-> NoDocuments],
     [collections |-> <<"packaging_records", "notes">>,
      documents |-> [NoDocuments EXCEPT !["packaging_records"] =
          << Stored("e1", "packaging_records",
                    cleanDocumentData(SourceDoc("s1", Str("w1"), "x"))) >>]]}

Status(objects, collectionId, key) ==
    IF \E o \in objects : o.coll = collectionId /\ o.key = key
    THEN (CHOOSE o \in objects : o.coll = collectionId /\ o.key = key).status
    ELSE "absent"

SetStatus(objects, collectionId, key, status) ==
    {o \in objects : ~(o.coll = collectionId /\ o.key = key)}
        \cup {[coll |-> collectionId, key |-> key, status |-> status]}

Call(op, db, coll, key, data, ok) ==
    [op |-> op, db |-> db, coll |-> coll, key |-> key, data |-> data, ok |-> ok]

NoResult == [successCount |-> 0, errorCount |-> 0, errors |-> <<>>]

NoResults ==
    [collections |-> [success |-> 0, failed |-> 0, errors |-> <<>>, attributeErrors |-> <<>>],
     documents |-> [success |-> 0, failed |-> 0, skipped |-> 0, errors |-> <<>>]]

NoCache == [present |-> FALSE, collections |-> <<>>]

RunStart(at, mode) ==
    /\ pc = at /\ exitCode = -1 /\ cloneMode = mode /\ calls = <<>>
    /\ failures = 0 /\ unique = 0 /\ runs = 0 /\ outstanding = {}
    /\ dropQueue = <<>>
    /\ collections = <<>> /\ ci = 0 /\ attributes = <<>> /\ indexes = <<>>
    /\ k = 0 /\ acc = NoResult /\ attrResult = NoResult /\ idxResult = NoResult
    /\ retries = 0 /\ results = NoResults /\ collectionDocs = <<>>
    /\ cacheFile = NoCache /\ processQueue = <<>> /\ di = 0

RunIdle == RunStart("idle", "")

RemoteIdle ==
    /\ source = <<>> /\ sourceExists = FALSE /\ destExists = FALSE
    /\ destCollections = <<>> /\ destAttributes = {} /\ destIndexes = {}
    /\ destDocuments = NoDocuments
    /\ destAtStart = [collections |-> <<>>, documents |-> NoDocuments]

(***************************************************************************)
(* The run: main, dropDestinationCollections.                              *)
(***************************************************************************)
cloneStructure == cloneMode \in {"full", "structure-only"}

cloneDataUnlessMissingOnly == cloneMode # "missing-only"

cloneDataWhenStructureSucceeded ==
    cloneMode \in {"full", "data-only"} /\ results.collections.failed = 0

cloneData == cloneMode \in {"full", "data-only"}

missingOnly == cloneMode = "missing-only"

DropsUnlessDataOnly == cloneMode # "data-only"

DropsWhenSourceHasCollections ==
    cloneStructure /\ ~missingOnly /\ Len(source) > 0

\* cloneOptions.cloneStructure && !cloneOptions.missingOnly
DropsFirst == cloneStructure /\ ~missingOnly

structLocals == <<attributes, indexes, k, acc, attrResult, idxResult, retries>>

dataLocals == <<collectionDocs, cacheFile, processQueue, di>>

destState == <<destCollections, destAttributes, destIndexes, destDocuments>>

fixed ==
    <<source, sourceExists, destExists, destAtStart, sanVars, pageVars, runs,
      outstanding>>

\* the answers a remote call can get: an error response is possible while the
\* run has seen fewer than MaxFailures of them, and certain when the service
\* must refuse (canSucceed is false)
Outcomes(canSucceed) ==
    IF canSucceed
    THEN {TRUE} \cup (IF failures < MaxFailures THEN {FALSE} ELSE {})
    ELSE {FALSE}

Injected(ok, canSucceed) == IF ~ok /\ canSucceed THEN 1 ELSE 0

\* main starts both getDatabaseInfo calls under Promise.all and awaits the two
GetDatabaseInfo ==
    /\ pc = "main"
    /\ calls' = calls \o << Call("getDatabase", "source", "", "", Null, sourceExists),
                            Call("getDatabase", "dest", "", "", Null, destExists) >>
    /\ outstanding' = {"source", "dest"}
    /\ pc' = "getDatabaseInfo"
    /\ UNCHANGED <<exitCode, cloneMode, failures, unique, dropQueue, collections, ci,
                   results, structLocals, dataLocals, destState, source,
                   sourceExists, destExists, destAtStart, sanVars, pageVars, runs>>

\* one of the two calls is answered, in either order; main goes on when both are
DatabaseInfoAnswered ==
    /\ pc = "getDatabaseInfo"
    /\ \E db \in outstanding :
        /\ outstanding' = outstanding \ {db}
        /\ pc' = IF outstanding' # {} THEN pc
                 ELSE IF sourceExists THEN "selectCloneMode" ELSE "exit"
        /\ exitCode' = IF outstanding' = {} /\ ~sourceExists THEN 1 ELSE exitCode
    /\ UNCHANGED <<cloneMode, calls, failures, unique, dropQueue, collections, ci,
                   results, structLocals, dataLocals, destState, source,
                   sourceExists, destExists, destAtStart, sanVars, pageVars, runs>>

DestinationNeverRequired(mode) == FALSE

\* main validates the destination only past the export branch
DestinationRequired(mode) == mode # "export-csv"

SelectCloneMode ==
    /\ pc = "selectCloneMode"
    /\ \E mode \in Modes :
        /\ cloneMode' = mode
        /\ pc' = IF mode = "export-csv" THEN "exportToCSV"
                 ELSE IF DestinationRequired(mode) /\ ~destExists THEN "exit"
                      ELSE "confirmMigration"
        /\ exitCode' = IF DestinationRequired(mode) /\ ~destExists THEN 1 ELSE exitCode
    /\ UNCHANGED <<calls, failures, unique, dropQueue, collections, ci,
                   results, structLocals, dataLocals, destState, fixed>>

\* a prompt rejects with ExitPromptError: main's catch exits with status 0
PromptAborted ==
    /\ pc \in {"selectCloneMode", "confirmMigration", "exportToCSV"}
    /\ pc' = "exit"
    /\ exitCode' = 0
    /\ UNCHANGED <<cloneMode, calls, failures, unique, dropQueue, collections, ci,
                   results, structLocals, dataLocals, destState, fixed>>

ConfirmMigrationDeclineFails ==
    /\ pc = "confirmMigration"
    /\ \E declined \in 0..3 :
        /\ pc' = IF declined > 0 THEN "exit"
                 ELSE IF DropsFirst
                      THEN "dropDestinationCollections" ELSE "cloneDatabase"
        /\ exitCode' = IF declined > 0 THEN 1 ELSE exitCode
    /\ UNCHANGED <<cloneMode, calls, failures, unique, dropQueue, collections, ci,
                   results, structLocals, dataLocals, destState, fixed>>

\* declined = 0: all three confirmations accepted; otherwise the first one declined
ConfirmMigration ==
    /\ pc = "confirmMigration"
    /\ \E declined \in 0..3 :
        /\ pc' = IF declined > 0 THEN "exit"
                 ELSE IF DropsFirst
                      THEN "dropDestinationCollections" ELSE "cloneDatabase"
        /\ exitCode' = IF declined > 0 THEN 0 ELSE exitCode
    /\ UNCHANGED <<cloneMode, calls, failures, unique, dropQueue, collections, ci,
                   results, structLocals, dataLocals, destState, fixed>>

ListDestinationCollections ==
    /\ pc = "dropDestinationCollections"
    /\ \E ok \in Outcomes(TRUE) :
        /\ calls' = Append(calls, Call("listCollections", "dest", "", "", Null, ok))
        /\ failures' = failures + Injected(ok, TRUE)
        /\ dropQueue' = IF ok THEN destCollections ELSE dropQueue
        /\ k' = 1
        /\ pc' = IF ~ok THEN "exit"
                 ELSE IF Len(destCollections) = 0 THEN "cloneDatabase"
                      ELSE "deleteCollection"
        /\ exitCode' = IF ok THEN exitCode ELSE 1
    /\ UNCHANGED <<cloneMode, unique, collections, ci, results, attributes, indexes,
                   acc, attrResult, idxResult, retries, dataLocals, destState, fixed>>

DeleteCollection ==
    /\ pc = "deleteCollection"
    /\ LET id == dropQueue[k]
       IN  \E ok \in Outcomes(TRUE) :
            /\ calls' = Append(calls, Call("deleteCollection", "dest", id, "", Null, ok))
            /\ failures' = failures + Injected(ok, TRUE)
            /\ destCollections' =
                   IF ok THEN SelectSeq(destCollections, LAMBDA c : c # id)
                   ELSE destCollections
            /\ destAttributes' =
                   IF ok THEN {o \in destAttributes : o.coll # id} ELSE destAttributes
            /\ destIndexes' = IF ok THEN {o \in destIndexes : o.coll # id} ELSE destIndexes
            /\ destDocuments' =
                   IF ok THEN [destDocuments EXCEPT ![id] = <<>>] ELSE destDocuments
    /\ k' = k + 1
    /\ pc' = IF k < Len(dropQueue) THEN "deleteCollection" ELSE "cloneDatabase"
    /\ UNCHANGED <<exitCode, cloneMode, unique, dropQueue, collections, ci, results,
                   attributes, indexes, acc, attrResult, idxResult, retries,
                   dataLocals, fixed>>

(***************************************************************************)
(* cloneDatabase: the structure phase, cloneCollectionStructure.           *)
(***************************************************************************)
FetchAllCollections ==
    /\ pc = "cloneDatabase"
    /\ results' = NoResults
    /\ \E ok \in Outcomes(TRUE) :
        /\ calls' = Append(calls, Call("listCollections", "source", "", "", Null, ok))
        /\ failures' = failures + Injected(ok, TRUE)
        /\ collections' = IF ok THEN source ELSE collections
        /\ ci' = 1
        /\ pc' = IF ~ok THEN "exit"
                 ELSE IF Len(source) = 0 THEN "done"
                      ELSE IF cloneStructure THEN "createCollection"
                           ELSE "fetchAllDocuments"
        /\ exitCode' = IF ~ok THEN 1 ELSE IF Len(source) = 0 THEN 0 ELSE exitCode
    /\ UNCHANGED <<cloneMode, unique, dropQueue, structLocals, dataLocals,
                   destState, fixed>>

CollectionResultIndexesFail(attrRes, idxRes) ==
    IF attrRes.errorCount > 0 \/ idxRes.errorCount > 0
    THEN [success |-> FALSE, error |-> "attribute(s) failed to create",
          attributeErrors |-> attrRes.errors, indexErrors |-> idxRes.errors]
    ELSE [success |-> TRUE, error |-> "",
          attributeErrors |-> <<>>, indexErrors |-> idxRes.errors]

\* the object cloneCollectionStructure returns after its two loops
CollectionResult(attrRes, idxRes) ==
    IF attrRes.errorCount > 0
    THEN [success |-> FALSE, error |-> "attribute(s) failed to create",
          attributeErrors |-> attrRes.errors, indexErrors |-> idxRes.errors]
    ELSE [success |-> TRUE, error |-> "",
          attributeErrors |-> <<>>, indexErrors |-> idxRes.errors]

CaughtAsSuccess(attrRes, idxRes) ==
    [success |-> TRUE, error |-> "",
     attributeErrors |-> attrRes.errors, indexErrors |-> idxRes.errors]

\* the object its catch block returns
CaughtResult(attrRes, idxRes) ==
    [success |-> FALSE, error |-> "remote error",
     attributeErrors |-> attrRes.errors, indexErrors |-> idxRes.errors]

\* cloneDatabase's bookkeeping of one collection's result
Recorded(res, collection, result) ==
    IF result.success
    THEN [res EXCEPT !.collections.success = @ + 1]
    ELSE [res EXCEPT
             !.collections.failed = @ + 1,
             !.collections.errors =
                 Append(@, [collection |-> collection.id, error |-> result.error]),
             !.collections.attributeErrors =
                 IF Len(result.attributeErrors) > 0
                 THEN Append(@, [collection |-> collection.id,
                                 errors |-> result.attributeErrors])
                 ELSE @]

AfterFirstCollection ==
    IF cloneData \/ missingOnly
    THEN [pc |-> "fetchAllDocuments", ci |-> 1, exitCode |-> exitCode]
    ELSE [pc |-> "done", ci |-> ci, exitCode |-> 0]

\* where cloneDatabase goes on when cloneCollectionStructure has returned
AfterCollection ==
    IF ci < Len(collections)
    THEN [pc |-> "createCollection", ci |-> ci + 1, exitCode |-> exitCode]
    ELSE IF cloneData \/ missingOnly
         THEN [pc |-> "fetchAllDocuments", ci |-> 1, exitCode |-> exitCode]
         ELSE [pc |-> "done", ci |-> ci, exitCode |-> 0]

Failure(key, error) == [key |-> key, error |-> error]

CreateCollection ==
    /\ pc = "createCollection"
    /\ LET id == collections[ci].id
           free == \A j \in 1..Len(destCollections) : destCollections[j] # id
       IN  \E ok \in Outcomes(free) :
            /\ calls' = Append(calls, Call("createCollection", "dest", id, "", Null, ok))
            /\ failures' = failures + Injected(ok, free)
            /\ destCollections' = IF ok THEN Append(destCollections, id) ELSE destCollections
            /\ results' = IF ok THEN results
                          ELSE Recorded(results, collections[ci],
                                        CaughtResult(NoResult, NoResult))
            /\ pc' = IF ok THEN "fetchAllAttributes" ELSE AfterCollection.pc
            /\ ci' = IF ok THEN ci ELSE AfterCollection.ci
            /\ exitCode' = IF ok THEN exitCode ELSE AfterCollection.exitCode
    /\ attrResult' = NoResult
    /\ idxResult' = NoResult
    /\ UNCHANGED <<cloneMode, unique, dropQueue, collections, attributes, indexes, k,
                   acc, retries, dataLocals, destAttributes, destIndexes,
                   destDocuments, fixed>>

FetchAllAttributes ==
    /\ pc = "fetchAllAttributes"
    /\ LET id == collections[ci].id
           listed == collections[ci].attributes
       IN  \E ok \in Outcomes(TRUE) :
            /\ calls' = Append(calls, Call("listAttributes", "source", id, "", Null, ok))
            /\ failures' = failures + Injected(ok, TRUE)
            /\ attributes' = IF ok THEN listed ELSE attributes
            /\ results' = IF ok THEN results
                          ELSE Recorded(results, collections[ci],
                                        CaughtResult(attrResult, idxResult))
            /\ pc' = IF ~ok THEN AfterCollection.pc
                     ELSE IF Len(listed) > 0 THEN "createAttributes"
                          ELSE "fetchAllIndexes"
            /\ ci' = IF ok THEN ci ELSE AfterCollection.ci
            /\ exitCode' = IF ok THEN exitCode ELSE AfterCollection.exitCode
    /\ k' = 1
    /\ acc' = NoResult
    /\ UNCHANGED <<cloneMode, unique, dropQueue, collections, indexes, attrResult,
                   idxResult, retries, dataLocals, destState, fixed>>

\* the attribute loop of createAttributes moves on from attribute k with the
\* counters `after`; past the last attribute createAttributes returns them
NextAttribute(after) ==
    /\ acc' = after
    /\ k' = IF k < Len(attributes) THEN k + 1 ELSE k
    /\ attrResult' = IF k < Len(attributes) THEN attrResult ELSE after
    /\ pc' = IF k < Len(attributes) THEN "createAttributes" ELSE "fetchAllIndexes"

IsAnyRelationship(attribute) == attribute.type = "relationship"

IsChildRelationship(attribute) ==
    attribute.type = "relationship" /\ attribute.side = "child"

SkipChildAttribute ==
    /\ pc = "createAttributes"
    /\ IsChildRelationship(attributes[k])
    /\ NextAttribute(acc)
    /\ UNCHANGED <<exitCode, cloneMode, calls, failures, unique, dropQueue,
                   collections, ci, results, attributes, indexes, idxResult,
                   retries, dataLocals, destState, fixed>>

\* createAttribute: an unknown type is refused without a remote call
CreateAttribute ==
    /\ pc = "createAttributes"
    /\ ~IsChildRelationship(attributes[k])
    /\ LET id == collections[ci].id
           attribute == attributes[k]
           failed == [acc EXCEPT !.errorCount = @ + 1,
                                 !.errors = Append(@, Failure(attribute.key, "remote error"))]
           unknown == [acc EXCEPT !.errorCount = @ + 1,
                                  !.errors = Append(@, Failure(attribute.key, "Unknown type"))]
       IN  IF attribute.type \notin KnownTypes
           THEN /\ NextAttribute(unknown)
                /\ UNCHANGED <<calls, failures, destAttributes, retries>>
           ELSE \E ok \in Outcomes(TRUE) :
                 /\ calls' = Append(calls, Call("createAttribute", "dest", id,
                                                attribute.key, Null, ok))
                 /\ failures' = failures + Injected(ok, TRUE)
                 /\ IF ok
                    THEN /\ destAttributes' =
                                SetStatus(destAttributes, id, attribute.key, "processing")
                         /\ acc' = [acc EXCEPT !.successCount = @ + 1]
                         /\ pc' = "waitForAttribute"
                         /\ retries' = 0
                         /\ UNCHANGED <<k, attrResult>>
                    ELSE /\ NextAttribute(failed)
                         /\ UNCHANGED <<destAttributes, retries>>
    /\ UNCHANGED <<exitCode, cloneMode, unique, dropQueue, collections, ci, results,
                   attributes, indexes, idxResult, dataLocals, destCollections,
                   destIndexes, destDocuments, fixed>>

WaitedOrFailed(counters, key, found) ==
    IF found THEN counters
    ELSE [counters EXCEPT !.successCount = @ - 1, !.errorCount = @ + 1,
                          !.errors = Append(@, Failure(key, "timeout"))]

\* createAttributes and createIndexes discard what waitForAttribute and
\* waitForIndex return: the counters are the same after a timeout
Waited(counters, key, found) == counters

WaitForAttributeSkipped ==
    /\ pc = "waitForAttribute"
    /\ NextAttribute(acc)
    /\ UNCHANGED <<exitCode, cloneMode, calls, failures, unique, dropQueue,
                   collections, ci, results, attributes, indexes, idxResult,
                   retries, dataLocals, destState, fixed>>

\* one iteration of waitForAttribute's loop: list the destination attributes,
\* return true on `available`, else sleep; return false after the last one.
\* An error of the listing leaves createAttributes for the catch block of
\* cloneCollectionStructure; of the polls, `calls` keeps the failed ones.
WaitForAttribute ==
    /\ pc = "waitForAttribute"
    /\ LET id == collections[ci].id
           key == attributes[k].key
           available == Status(destAttributes, id, key) = "available"
       IN  \E ok \in Outcomes(TRUE) :
            /\ failures' = failures + Injected(ok, TRUE)
            /\ calls' = IF ok THEN calls
                        ELSE Append(calls, Call("listAttributes", "dest", id, "", Null, ok))
            /\ IF ~ok
               THEN /\ results' = Recorded(results, collections[ci],
                                           CaughtResult(attrResult, idxResult))
                    /\ pc' = AfterCollection.pc
                    /\ ci' = AfterCollection.ci
                    /\ exitCode' = AfterCollection.exitCode
                    /\ UNCHANGED <<k, acc, attrResult, retries>>
               ELSE IF available \/ retries + 1 >= MaxAttributeRetries
                    THEN /\ NextAttribute(Waited(acc, key, available))
                         /\ UNCHANGED <<results, ci, exitCode, retries>>
                    ELSE /\ retries' = retries + 1
                         /\ UNCHANGED <<results, ci, exitCode, pc, k, acc, attrResult>>
    /\ UNCHANGED <<cloneMode, unique, dropQueue, collections, attributes,
                   indexes, idxResult, dataLocals, destState, fixed>>

FetchAllIndexesUnlessAttributesFailed ==
    /\ pc = "fetchAllIndexes"
    /\ LET id == collections[ci].id
           listed == IF attrResult.errorCount > 0 THEN <<>>
                     ELSE collections[ci].indexes
       IN  \E ok \in Outcomes(TRUE) :
            /\ calls' = Append(calls, Call("listIndexes", "source", id, "", Null, ok))
            /\ failures' = failures + Injected(ok, TRUE)
            /\ indexes' = IF ok THEN listed ELSE indexes
            /\ results' =
                   IF ~ok
                   THEN Recorded(results, collections[ci],
                                 CaughtResult(attrResult, idxResult))
                   ELSE IF Len(listed) = 0
                        THEN Recorded(results, collections[ci],
                                      CollectionResult(attrResult, idxResult))
                        ELSE results
            /\ pc' = IF ok /\ Len(listed) > 0 THEN "createIndexes" ELSE AfterCollection.pc
            /\ ci' = IF ok /\ Len(listed) > 0 THEN ci ELSE AfterCollection.ci
            /\ exitCode' = IF ok /\ Len(listed) > 0 THEN exitCode
                           ELSE AfterCollection.exitCode
    /\ k' = 1
    /\ acc' = NoResult
    /\ UNCHANGED <<cloneMode, unique, dropQueue, collections, attributes, attrResult,
                   idxResult, retries, dataLocals, destState, fixed>>

FetchAllIndexes ==
    /\ pc = "fetchAllIndexes"
    /\ LET id == collections[ci].id
           listed == collections[ci].indexes
       IN  \E ok \in Outcomes(TRUE) :
            /\ calls' = Append(calls, Call("listIndexes", "source", id, "", Null, ok))
            /\ failures' = failures + Injected(ok, TRUE)
            /\ indexes' = IF ok THEN listed ELSE indexes
            /\ results' =
                   IF ~ok
                   THEN Recorded(results, collections[ci],
                                 CaughtResult(attrResult, idxResult))
                   ELSE IF Len(listed) = 0
                        THEN Recorded(results, collections[ci],
                                      CollectionResult(attrResult, idxResult))
                        ELSE results
            /\ pc' = IF ok /\ Len(listed) > 0 THEN "createIndexes" ELSE AfterCollection.pc
            /\ ci' = IF ok /\ Len(listed) > 0 THEN ci ELSE AfterCollection.ci
            /\ exitCode' = IF ok /\ Len(listed) > 0 THEN exitCode
                           ELSE AfterCollection.exitCode
    /\ k' = 1
    /\ acc' = NoResult
    /\ UNCHANGED <<cloneMode, unique, dropQueue, collections, attributes, attrResult,
                   idxResult, retries, dataLocals, destState, fixed>>

\* the index loop of createIndexes moves on from index k with the counters
\* `after`; past the last index createIndexes and cloneCollectionStructure return
NextIndex(after) ==
    /\ acc' = after
    /\ k' = IF k < Len(indexes) THEN k + 1 ELSE k
    /\ idxResult' = IF k < Len(indexes) THEN idxResult ELSE after
    /\ results' = IF k < Len(indexes) THEN results
                  ELSE Recorded(results, collections[ci],
                                CollectionResult(attrResult, after))
    /\ pc' = IF k < Len(indexes) THEN "createIndexes" ELSE AfterCollection.pc
    /\ ci' = IF k < Len(indexes) THEN ci ELSE AfterCollection.ci
    /\ exitCode' = IF k < Len(indexes) THEN exitCode ELSE AfterCollection.exitCode

CreateIndex ==
    /\ pc = "createIndexes"
    /\ LET id == collections[ci].id
           index == indexes[k]
           failed == [acc EXCEPT !.errorCount = @ + 1,
                                 !.errors = Append(@, Failure(index.key, "remote error"))]
       IN  \E ok \in Outcomes(TRUE) :
            /\ calls' = Append(calls, Call("createIndex", "dest", id, index.key, Null, ok))
            /\ failures' = failures + Injected(ok, TRUE)
            /\ IF ok
               THEN /\ destIndexes' = SetStatus(destIndexes, id, index.key, "processing")
                    /\ acc' = [acc EXCEPT !.successCount = @ + 1]
                    /\ pc' = "waitForIndex"
                    /\ retries' = 0
                    /\ UNCHANGED <<k, idxResult, results, ci, exitCode>>
               ELSE /\ NextIndex(failed)
                    /\ UNCHANGED <<destIndexes, retries>>
    /\ UNCHANGED <<cloneMode, unique, dropQueue, collections, attributes, indexes,
                   attrResult, dataLocals, destCollections, destAttributes,
                   destDocuments, fixed>>

WaitForIndex ==
    /\ pc = "waitForIndex"
    /\ LET id == collections[ci].id
           key == indexes[k].key
           available == Status(destIndexes, id, key) = "available"
       IN  \E ok \in Outcomes(TRUE) :
            /\ failures' = failures + Injected(ok, TRUE)
            /\ calls' = IF ok THEN calls
                        ELSE Append(calls, Call("listIndexes", "dest", id, "", Null, ok))
            /\ IF ~ok
               THEN /\ results' = Recorded(results, collections[ci],
                                           CaughtResult(attrResult, idxResult))
                    /\ pc' = AfterCollection.pc
                    /\ ci' = AfterCollection.ci
                    /\ exitCode' = AfterCollection.exitCode
                    /\ UNCHANGED <<k, acc, idxResult, retries>>
               ELSE IF available \/ retries + 1 >= MaxIndexRetries
                    THEN /\ NextIndex(Waited(acc, key, available))
                         /\ UNCHANGED retries
                    ELSE /\ retries' = retries + 1
                         /\ UNCHANGED <<results, ci, exitCode, pc, k, acc, idxResult>>
    /\ UNCHANGED <<cloneMode, unique, dropQueue, collections, attributes,
                   indexes, attrResult, dataLocals, destState, fixed>>

\* the service finishes building an attribute or an index
RemoteProcessing ==
    /\ pc \notin {"idle", "exit", "done"}
    /\ \/ /\ \E o \in destAttributes :
                /\ o.status = "processing"
                /\ destAttributes' = SetStatus(destAttributes, o.coll, o.key, "available")
          /\ UNCHANGED destIndexes
       \/ /\ \E o \in destIndexes :
                /\ o.status = "processing"
                /\ destIndexes' = SetStatus(destIndexes, o.coll, o.key, "available")
          /\ UNCHANGED destAttributes
    /\ UNCHANGED <<pc, exitCode, cloneMode, calls, failures, unique, dropQueue,
                   collections, ci, results, structLocals, dataLocals,
                   destCollections, destDocuments, fixed>>

(***************************************************************************)
(* cloneDatabase: the data phase.                                          *)
(***************************************************************************)
FetchAllDocuments ==
    /\ pc = "fetchAllDocuments"
    /\ LET collection == collections[ci]
       IN  \E ok \in Outcomes(TRUE) :
            /\ calls' = Append(calls, Call("listDocuments", "source", collection.id,
                                           "", Null, ok))
            /\ failures' = failures + Injected(ok, TRUE)
            /\ collectionDocs' =
                   IF ok
                   THEN Append(collectionDocs,
                               [collectionId |-> collection.id,
                                documents |-> collection.documents])
                   ELSE collectionDocs
            /\ pc' = IF ~ok THEN "exit"
                     ELSE IF ci < Len(collections) THEN "fetchAllDocuments"
                          ELSE "writeCacheFile"
            /\ ci' = IF ok /\ ci < Len(collections) THEN ci + 1 ELSE ci
            /\ exitCode' = IF ok THEN exitCode ELSE 1
    /\ UNCHANGED <<cloneMode, unique, dropQueue, collections, results, structLocals,
                   cacheFile, processQueue, di, destState, fixed>>

WriteCacheFileKeptInMemory ==
    /\ pc = "writeCacheFile"
    /\ cacheFile' =
           [present |-> FALSE,
            collections |->
                [j \in 1..Len(collectionDocs) |->
                    [collectionId |-> collectionDocs[j].collectionId,
                     documentCount |-> Len(collectionDocs[j].documents),
                     documents |-> collectionDocs[j].documents]]]
    /\ pc' = "readCacheFile"
    /\ UNCHANGED <<exitCode, cloneMode, calls, failures, unique, dropQueue,
                   collections, ci, results, structLocals, collectionDocs,
                   processQueue, di, destState, fixed>>

WriteCacheFile ==
    /\ pc = "writeCacheFile"
    /\ cacheFile' =
           [present |-> TRUE,
            collections |->
                [j \in 1..Len(collectionDocs) |->
                    [collectionId |-> collectionDocs[j].collectionId,
                     documentCount |-> Len(collectionDocs[j].documents),
                     documents |-> collectionDocs[j].documents]]]
    /\ pc' = "readCacheFile"
    /\ UNCHANGED <<exitCode, cloneMode, calls, failures, unique, dropQueue,
                   collections, ci, results, structLocals, collectionDocs,
                   processQueue, di, destState, fixed>>

ReadCacheFile ==
    /\ pc = "readCacheFile"
    /\ processQueue' = <<>>
    /\ ci' = 1
    /\ pc' = "buildQueue"
    /\ UNCHANGED <<exitCode, cloneMode, calls, failures, unique, dropQueue,
                   collections, results, structLocals, collectionDocs, cacheFile,
                   di, destState, fixed>>

QueuedButTheFirst(collData, documents) ==
    [collectionId |-> collData.collectionId,
     documents |-> SubSeq(documents, 2, Len(documents))]

QueuedButTheLast(collData, documents) ==
    [collectionId |-> collData.collectionId,
     documents |-> SubSeq(documents, 1, Len(documents) - 1)]

Queued(collData, documents) ==
    [collectionId |-> collData.collectionId, documents |-> documents]

\* the first queue entry after entry c that holds a document, 0 when none does
NextQueue(queue, c) ==
    LET later == {j \in (c + 1)..Len(queue) : Len(queue[j].documents) > 0}
    IN  IF later = {} THEN 0 ELSE CHOOSE j \in later : \A h \in later : j <= h

\* the queue is complete: on to the write loop, or past it when
\* docsToProcess is 0
StartWriting(queue) ==
    /\ processQueue' = queue
    /\ ci' = NextQueue(queue, 0)
    /\ di' = 1
    /\ pc' = IF NextQueue(queue, 0) = 0 THEN "deleteCacheFile" ELSE "createDocument"

QueueAllDocuments ==
    /\ pc = "buildQueue"
    /\ ~missingOnly
    /\ StartWriting([j \in 1..Len(cacheFile.collections) |->
                        Queued(cacheFile.collections[j],
                               cacheFile.collections[j].documents)])
    /\ UNCHANGED <<exitCode, cloneMode, calls, failures, unique, dropQueue,
                   collections, results, structLocals, collectionDocs, cacheFile,
                   destState, fixed>>

MissingDocsOncePerKey(collData, existingDocs) ==
    LET existing == buildExistingRecordSet(existingDocs, collData.collectionId)
        docs == collData.documents
        at(doc) == CHOOSE i \in 1..Len(docs) : docs[i] = doc
    IN  SelectSeq(docs,
                  LAMBDA doc :
                      /\ isDocumentMissing(doc, existing.existingSet,
                                           existing.identifierField)
                      /\ \A h \in 1..(at(doc) - 1) :
                             ExistingKey(docs[h], existing.identifierField)
                                 # ExistingKey(doc, existing.identifierField))

\* the documents of collData that the destination does not hold
MissingDocs(collData, existingDocs) ==
    LET existing == buildExistingRecordSet(existingDocs, collData.collectionId)
    IN  SelectSeq(collData.documents,
                  LAMBDA doc : isDocumentMissing(doc, existing.existingSet,
                                                 existing.identifierField))

QueueMissingDocuments ==
    /\ pc = "buildQueue"
    /\ missingOnly
    /\ LET collData == cacheFile.collections[ci]
           id == collData.collectionId
           exists == \E j \in 1..Len(destCollections) : destCollections[j] = id
           missingDocs == MissingDocs(collData, destDocuments[id])
           queue == Append(processQueue, Queued(collData, missingDocs))
       IN  \E ok \in Outcomes(exists) :
            /\ calls' = Append(calls, Call("listDocuments", "dest", id, "", Null, ok))
            /\ failures' = failures + Injected(ok, exists)
            /\ exitCode' = IF ok THEN exitCode ELSE 1
            /\ results' =
                   IF ok
                   THEN [results EXCEPT !.documents.skipped =
                             @ + (Len(collData.documents) - Len(missingDocs))]
                   ELSE results
            /\ IF ~ok
               THEN pc' = "exit" /\ UNCHANGED <<processQueue, ci, di>>
               ELSE IF ci < Len(cacheFile.collections)
                    THEN /\ processQueue' = queue
                         /\ ci' = ci + 1
                         /\ UNCHANGED <<pc, di>>
                    ELSE StartWriting(queue)
    /\ UNCHANGED <<cloneMode, unique, dropQueue, collections, structLocals,
                   collectionDocs, cacheFile, destState, fixed>>

AddNoDocumentError(errors, collectionName, documentId) == errors

\* results.documents.errors with one more failure under its collection
AddDocumentError(errors, collectionName, documentId) ==
    LET entry == [documentId |-> documentId, error |-> "remote error"]
    IN  IF \E j \in 1..Len(errors) : errors[j].collection = collectionName
        THEN [j \in 1..Len(errors) |->
                 IF errors[j].collection = collectionName
                 THEN [errors[j] EXCEPT !.errors = Append(@, entry)]
                 ELSE errors[j]]
        ELSE Append(errors, [collection |-> collectionName, errors |-> <<entry>>])

CreateDocument ==
    /\ pc = "createDocument"
    /\ unique < Len(UniqueIds)
    /\ LET id == processQueue[ci].collectionId
           document == processQueue[ci].documents[di]
           cleanedData == cleanDocumentData(document)
           newId == UniqueIds[unique + 1]
           exists == \E j \in 1..Len(destCollections) : destCollections[j] = id
           more == di < Len(processQueue[ci].documents)
       IN  /\ \E ok \in Outcomes(exists) :
                /\ calls' = Append(calls, Call("createDocument", "dest", id, newId,
                                               cleanedData, ok))
                /\ failures' = failures + Injected(ok, exists)
                /\ destDocuments' =
                       IF ok
                       THEN [destDocuments EXCEPT
                                ![id] = Append(@, Stored(newId, id, cleanedData))]
                       ELSE destDocuments
                /\ results' =
                       IF ok
                       THEN [results EXCEPT !.documents.success = @ + 1]
                       ELSE [results EXCEPT
                                !.documents.failed = @ + 1,
                                !.documents.errors =
                                    AddDocumentError(@, id, Get(document, "$id"))]
           /\ unique' = unique + 1
           /\ di' = IF more THEN di + 1 ELSE 1
           /\ ci' = IF more THEN ci ELSE NextQueue(processQueue, ci)
           /\ pc' = IF more \/ NextQueue(processQueue, ci) # 0
                    THEN "createDocument" ELSE "deleteCacheFile"
    /\ UNCHANGED <<exitCode, cloneMode, dropQueue, collections, structLocals,
                   collectionDocs, cacheFile, processQueue, destCollections,
                   destAttributes, destIndexes, fixed>>

DeleteCacheFileKeepsFile ==
    /\ pc = "deleteCacheFile"
    /\ pc' = "done"
    /\ exitCode' = 0
    /\ UNCHANGED <<cloneMode, calls, failures, unique, dropQueue, collections, ci,
                   results, structLocals, dataLocals, destState, fixed>>

DeleteCacheFile ==
    /\ pc = "deleteCacheFile"
    /\ cacheFile' = NoCache
    /\ pc' = "done"
    /\ exitCode' = 0
    /\ UNCHANGED <<cloneMode, calls, failures, unique, dropQueue, collections, ci,
                   results, structLocals, collectionDocs, processQueue, di,
                   destState, fixed>>

(***************************************************************************)
(* exportToCSV.                                                            *)
(***************************************************************************)
ExportListCollections ==
    /\ pc = "exportToCSV"
    /\ \E ok \in Outcomes(TRUE) :
        /\ calls' = Append(calls, Call("listCollections", "source", "", "", Null, ok))
        /\ failures' = failures + Injected(ok, TRUE)
        /\ collections' = IF ok THEN source ELSE collections
        /\ ci' = 1
        /\ pc' = IF ~ok THEN "exit"
                 ELSE IF Len(source) = 0 THEN "done" ELSE "exportCollection"
        /\ exitCode' = IF ~ok THEN 1 ELSE IF Len(source) = 0 THEN 0 ELSE exitCode
    /\ UNCHANGED <<cloneMode, unique, dropQueue, results, structLocals, dataLocals,
                   destState, fixed>>

ExportCollection ==
    /\ pc = "exportCollection"
    /\ \E ok \in Outcomes(TRUE) :
        /\ calls' = Append(calls, Call("listDocuments", "source", collections[ci].id,
                                       "", Null, ok))
        /\ failures' = failures + Injected(ok, TRUE)
        /\ pc' = IF ~ok THEN "exit"
                 ELSE IF ci < Len(collections) THEN "exportCollection" ELSE "done"
        /\ ci' = IF ok /\ ci < Len(collections) THEN ci + 1 ELSE ci
        /\ exitCode' = IF ~ok THEN 1
                       ELSE IF ci < Len(collections) THEN exitCode ELSE 0
    /\ UNCHANGED <<cloneMode, unique, dropQueue, collections, results, structLocals,
                   dataLocals, destState, fixed>>

(***************************************************************************)
(* One run of the tool against every source and destination of the model.  *)
(***************************************************************************)
Init ==
    /\ SanIdle /\ PageIdle
    /\ sourceExists \in BOOLEAN
    /\ destExists \in BOOLEAN
    /\ source \in IF sourceExists THEN Sources ELSE {<<>>}
    /\ \E d \in IF destExists THEN Destinations
                ELSE {[collections |-> <<>>, documents |-> NoDocuments]} :
        /\ destAtStart = d
        /\ destCollections = d.collections
        /\ destDocuments = d.documents
    /\ destAttributes = {}
    /\ destIndexes = {}
    /\ RunStart("main", "")

Structure ==
    \/ CreateCollection \/ FetchAllAttributes \/ SkipChildAttribute
    \/ CreateAttribute \/ WaitForAttribute \/ FetchAllIndexes \/ CreateIndex
    \/ WaitForIndex \/ RemoteProcessing

Data ==
    \/ FetchAllDocuments \/ WriteCacheFile \/ ReadCacheFile \/ QueueAllDocuments
    \/ QueueMissingDocuments \/ CreateDocument \/ DeleteCacheFile

Next ==
    \/ GetDatabaseInfo \/ DatabaseInfoAnswered \/ SelectCloneMode \/ PromptAborted \/ ConfirmMigration
    \/ ListDestinationCollections \/ DeleteCollection \/ FetchAllCollections
    \/ Structure \/ Data
    \/ ExportListCollections \/ ExportCollection

Spec == Init /\ [][Next]_vars

(***************************************************************************)
(* `missing-only` run twice: the operator starts the tool again, with the   *)
(* same answers, when a run has ended normally.  The runs start at          *)
(* cloneDatabase, the mode selected and the confirmations given.            *)
(***************************************************************************)
RunAgain ==
    /\ pc = "done"
    /\ runs + 1 < MaxRuns
    /\ runs' = runs + 1
    /\ calls' = Append(calls, Call("run", "", "", "", Null, TRUE))
    /\ pc' = "cloneDatabase"
    /\ exitCode' = -1
    /\ dropQueue' = <<>> /\ collections' = <<>> /\ ci' = 0
    /\ attributes' = <<>> /\ indexes' = <<>> /\ k' = 0 /\ acc' = NoResult
    /\ attrResult' = NoResult /\ idxResult' = NoResult /\ retries' = 0
    /\ results' = NoResults /\ collectionDocs' = <<>> /\ cacheFile' = NoCache
    /\ processQueue' = <<>> /\ di' = 0
    /\ UNCHANGED <<cloneMode, failures, unique, destState, source, sourceExists,
                   destExists, destAtStart, sanVars, pageVars, outstanding>>

\* the sub-sequence of `pool` at the indexes `chosen`
Pick(pool, chosen) ==
    [j \in 1..Cardinality(chosen) |->
        pool[CHOOSE x \in chosen : Cardinality({y \in chosen : y < x}) = j - 1]]

SubSequences(pool) ==
    {Pick(pool, chosen) : chosen \in {c \in SUBSET (1..Len(pool)) : Cardinality(c) <= MaxDocs}}

\* source documents of packaging_records: identifiers a, b, c, a second
\* document with identifier a, an empty identifier, and an identifier field
\* that holds a relationship expansion
SourcePool ==
    << SourceDoc("s1", Str("a"), "x"), SourceDoc("s2", Str("b"), "x"),
       SourceDoc("s3", Str("c"), "y"), SourceDoc("s4", Str("a"), "z"),
       SourceDoc("s5", Str(""), "y"), SourceDoc("s6", Related("r1", Str("x")), "z") >>

DestPool ==
    << Stored("e1", "packaging_records", cleanDocumentData(SourceDoc("s1", Str("a"), "x"))),
       Stored("e2", "packaging_records", cleanDocumentData(SourceDoc("s2", Str("b"), "x"))),
       Stored("e3", "packaging_records", cleanDocumentData(SourceDoc("s5", Str(""), "y"))) >>

\* source documents of notes, a collection with no identifier field: two
\* with the same fields, one with another body
NotesPool ==
    << NoteDoc("n1", "hello"), NoteDoc("n2", "hello"), NoteDoc("n3", "bye") >>

\* destination documents of notes: the fields of n1, the fields of n1 with
\* another body, and the fields of n3 with one field more
NotesDestPool ==
    << Stored("e5", "notes", cleanDocumentData(NoteDoc("n1", "hello"))),
       Stored("e6", "notes", cleanDocumentData(NoteDoc("n1", "hullo"))),
       Stored("e7", "notes",
              Obj(cleanDocumentData(NoteDoc("n3", "bye")).kids
                      \o << <<"pinned", Str("yes")>> >>)) >>

InitRerun ==
    /\ SanIdle /\ PageIdle
    /\ sourceExists = TRUE
    /\ destExists = TRUE
    /\ \/ /\ \E docs \in SubSequences(SourcePool) :
                 source = << [PackagingRecords EXCEPT !.documents = docs] >>
          /\ \E docs \in SubSequences(DestPool) :
                 destAtStart =
                     [collections |-> <<"packaging_records">>,
                      documents |-> [NoDocuments EXCEPT !["packaging_records"] = docs]]
       \/ /\ \E docs \in SubSequences(NotesPool) :
                 source = << [Notes EXCEPT !.documents = docs] >>
          /\ \E docs \in SubSequences(NotesDestPool) :
                 destAtStart =
                     [collections |-> <<"notes">>,
                      documents |-> [NoDocuments EXCEPT !["notes"] = docs]]
    /\ destCollections = destAtStart.collections
    /\ destDocuments = destAtStart.documents
    /\ destAttributes = {}
    /\ destIndexes = {}
    /\ RunStart("cloneDatabase", "missing-only")

NextRerun ==
    \/ FetchAllCollections \/ FetchAllDocuments \/ WriteCacheFile \/ ReadCacheFile
    \/ QueueMissingDocuments \/ CreateDocument \/ DeleteCacheFile \/ RunAgain

SpecRerun == InitRerun /\ [][NextRerun]_vars

(***************************************************************************)
(* The structure phase alone, for a collection with several attributes and *)
(* indexes: `structure-only`, from cloneDatabase on, the destination empty. *)
(***************************************************************************)
PackagingItems ==
    [id |-> "packaging_items",
     attributes |-> << Attribute("packaging_record_id", "relationship", "child"),
                       Attribute("product_barcode", "string", ""),
                       Attribute("scanned_at", "datetime", "") >>,
     indexes |-> << [key |-> "idx_barcode", attributes |-> <<"product_barcode">>],
                    [key |-> "idx_scanned", attributes |-> <<"scanned_at">>] >>,
     documents |-> <<>>]

InitStructure ==
    /\ SanIdle /\ PageIdle
    /\ sourceExists = TRUE
    /\ destExists = TRUE
    /\ source = <<PackagingItems>>
    /\ destAtStart = [collections |-> <<>>, documents |-> NoDocuments]
    /\ destCollections = <<>>
    /\ destDocuments = NoDocuments
    /\ destAttributes = {}
    /\ destIndexes = {}
    /\ RunStart("cloneDatabase", "structure-only")

NextStructure == FetchAllCollections \/ Structure

SpecStructure == InitStructure /\ [][NextStructure]_vars

\* the event loop runs the poll that is due
FairSpecStructure ==
    SpecStructure /\ WF_vars(WaitForAttribute) /\ WF_vars(WaitForIndex)

(***************************************************************************)
(* Specifications of the sanitizer and of one traversal.                   *)
(***************************************************************************)
InitSanitize ==
    /\ sanDocument \in SanitizerInputs
    /\ sanCleaned = Null
    /\ sanDone = FALSE
    /\ PageIdle /\ RemoteIdle /\ RunIdle

NextSanitize == Sanitize \/ SanitizeAgain

SpecSanitize == InitSanitize /\ [][NextSanitize]_vars

InitPaginate ==
    /\ listing \in DistinctSeqs(MaxItems)
    /\ limit \in 1..MaxPage
    /\ fetched = <<>>
    /\ lastId = NoCursor
    /\ hasMore = TRUE
    /\ requests = 0
    /\ pageOutcome = Pending
    /\ SanIdle /\ RemoteIdle /\ RunIdle

SpecPaginate == InitPaginate /\ [][FetchPage]_vars

\* the loop goes on while hasMore holds
FairSpecPaginate == SpecPaginate /\ WF_vars(FetchPage)

(***************************************************************************)
(* Claims about one fetch-all traversal (SpecPaginate).                    *)
(***************************************************************************)
TraversalDone == ~hasMore /\ requests > 0

\* C2: when the fetch-all loop has returned, the accumulated list is the
\* remote listing itself: every item, once, in the listing's order.
C2_FetchAllReturnsListing == TraversalDone => fetched = listing

\* C2 witness: a traversal of several pages has returned the whole listing.
C2_Witness ==
    TraversalDone /\ requests >= 2 /\ Len(listing) > limit /\ fetched = listing

\* C3 as claimed: the loop has issued ceil(N/P) requests when it returns.
C3_RequestsAreCeiling ==
    TraversalDone => requests = (Len(listing) + limit - 1) \div limit

\* C3 amended: the loop has issued floor(N/P) + 1 requests when it returns;
\* that is ceil(N/P) unless P divides N (N = 0 included), when one more,
\* empty, page is requested.
C3_RequestsAreFloorPlusOne ==
    TraversalDone => requests = (Len(listing) \div limit) + 1

\* C3 witness: a listing whose length is a non-zero multiple of the page size
\* has been traversed with one request more than full pages.
C3_Witness ==
    /\ TraversalDone
    /\ Len(listing) > 0
    /\ Len(listing) % limit = 0
    /\ requests = (Len(listing) \div limit) + 1

\* C21: the step in which a list request of the traversal is rejected ends
\* the traversal with the error: no list is delivered, the requests issued
\* are those of the full pages fetched before and the failed one, and no
\* request follows; a list that is delivered is the whole listing, never
\* the pages fetched before a rejection.
C21_ErrorEndsTraversal ==
    [][/\ pageOutcome'.status = "thrown"
          => /\ pageOutcome'.value = <<>>
             /\ Len(fetched') % limit = 0
             /\ requests' = (Len(fetched') \div limit) + 1
       /\ pageOutcome.status = "thrown" => requests' = requests
       /\ (/\ requests' = requests + 1
           /\ fetched' = fetched
           /\ ListPage(listing, lastId, limit) # <<>>)
          => pageOutcome'.status = "thrown"
       /\ pageOutcome'.status = "returned" => pageOutcome'.value = listing]_vars

\* C21 witness: the request of the second page was rejected after a full
\* first page; nothing was delivered.
C21_Witness ==
    /\ pageOutcome.status = "thrown"
    /\ pageOutcome.value = <<>>
    /\ Len(fetched) = limit
    /\ requests = 2

\* C33: while the loop is running every page so far was full, and the cursor
\* of the next request is none before the first request and the key of the
\* last item of the preceding page after it; an answered request ends the
\* loop exactly when its page is shorter than the page size; the requests
\* never exceed floor(N/P) + 1; and a traversal none of whose requests is
\* rejected returns, with the whole listing.
C33_TraversalTerminates ==
    /\ []((hasMore /\ pageOutcome = Pending)
          => /\ Len(fetched) = requests * limit
             /\ fetched = SubSeq(listing, 1, Len(fetched))
             /\ lastId = IF requests = 0 THEN NoCursor ELSE listing[requests * limit])
    /\ [](requests <= (Len(listing) \div limit) + 1)
    /\ [][(requests' = requests + 1 /\ pageOutcome'.status # "thrown")
          => LET page == SubSeq(fetched', Len(fetched) + 1, Len(fetched'))
             IN  /\ page = ListPage(listing, lastId, limit)
                 /\ hasMore' = (Len(page) >= limit)
                 /\ ~hasMore' => pageOutcome' = Returned(listing)]_vars
    /\ [](pageOutcome.status # "thrown")
           => <>(pageOutcome.status = "returned" /\ ~hasMore)

\* a listing of three items was traversed by pages of two: the second
\* request, with the second item as its cursor, got the short page
C33_Witness ==
    /\ pageOutcome = Returned(listing)
    /\ Len(listing) = 3
    /\ limit = 2
    /\ requests = 2
    /\ lastId = listing[2]

(***************************************************************************)
(* Claims about the sanitizer (SpecSanitize).                              *)
(***************************************************************************)
RECURSIVE ContainsReservedKey(_)
ContainsReservedKey(v) ==
    \/ v.t = "obj" /\ Keys(v) \cap systemFields # {}
    \/ \E j \in 1..Len(v.kids) : ContainsReservedKey(v.kids[j][2])

\* C4: the sanitizer's output holds no reserved metadata key in any object
\* at any depth, through objects, arrays and arrays of arrays.
C4_NoReservedKeyAnywhere == sanDone => ~ContainsReservedKey(sanCleaned)

RECURSIVE Collapsed(_, _)
Collapsed(in, out) ==
    IF isRelatedDocument(in)
    THEN out = Get(in, "$id")
    ELSE IF in.t = "arr"
         THEN /\ out.t = "arr"
              /\ Len(out.kids) = Len(in.kids)
              /\ \A j \in 1..Len(in.kids) : Collapsed(in.kids[j][2], out.kids[j][2])
         ELSE IF in.t = "obj"
              THEN /\ out.t = "obj"
                   /\ \A j \in 1..Len(in.kids) :
                          in.kids[j][1] \notin systemFields =>
                              /\ HasKey(out, in.kids[j][1])
                              /\ Collapsed(in.kids[j][2], Get(out, in.kids[j][1]))
              ELSE TRUE

\* C5: every relationship-shaped value of the document, also one inside a
\* nested plain object or inside an array of a nested plain object, is its
\* bare identifier in the sanitizer's output (arrays keep their order).
C5_RelationshipsCollapse ==
    sanDone =>
        \A j \in 1..Len(sanDocument.kids) :
            sanDocument.kids[j][1] \notin systemFields =>
                Collapsed(sanDocument.kids[j][2], Get(sanCleaned, sanDocument.kids[j][1]))

\* C29: applying the sanitizer to a document it has sanitized changes
\* nothing: the output of the second application is the output of the first.
C29_SanitizerIsIdempotent ==
    [][sanDone => /\ sanCleaned' = sanCleaned
                  /\ sanCleaned' = sanDocument']_vars

\* the sanitizer was applied to its own output for a document whose field
\* held an array of two relationship expansions
C29_Witness ==
    /\ sanDone
    /\ sanDocument = sanCleaned
    /\ sanCleaned = Obj(<< <<"f", Arr(<<Str("r1"), Str("r2")>>)>> >>)

(***************************************************************************)
(* Claims about one run (Spec).                                            *)
(***************************************************************************)
CallsOf(op) == SelectSeq(calls, LAMBDA c : c.op = op)

Issued(op) == \E j \in 1..Len(calls) : calls[j].op = op

\* C1: a create-index call is issued only while every attribute the index
\* references is `available` in the destination collection, whatever the
\* outcome of the attribute's creation call and readiness poll.
C1_IndexAfterAttributesAvailable ==
    [][(/\ Len(calls') = Len(calls) + 1
        /\ calls'[Len(calls')].op = "createIndex")
       => \A a \in 1..Len(indexes[k].attributes) :
              Status(destAttributes, calls'[Len(calls')].coll,
                     indexes[k].attributes[a]) = "available"]_vars

\* the keys of the create-attribute calls issued for a collection, in order
AttributeKeysCreated(collectionId) ==
    LET made == SelectSeq(calls, LAMBDA c : c.op = "createAttribute"
                                            /\ c.coll = collectionId)
    IN  [j \in 1..Len(made) |-> made[j].key]

\* the keys of the attributes of a known type that are not child-side
\* relationships, in source order
AttributeKeysToReplay(attrs) ==
    LET kept == SelectSeq(attrs, LAMBDA a :
                    /\ ~(a.type = "relationship" /\ a.side = "child")
                    /\ a.type \in KnownTypes)
    IN  [j \in 1..Len(kept) |-> kept[j].key]

\* C8: no create-attribute call is issued for a child-side relationship
\* attribute, and when createAttributes has returned for a collection its
\* create-attribute calls are those of all other attributes of a known type.
C8_ChildRelationshipNeverCreated ==
    /\ \A j \in 1..Len(calls) :
           calls[j].op = "createAttribute" =>
               \A c \in 1..Len(source) : \A a \in 1..Len(source[c].attributes) :
                   (source[c].id = calls[j].coll
                    /\ source[c].attributes[a].key = calls[j].key)
                   => ~(source[c].attributes[a].type = "relationship"
                        /\ source[c].attributes[a].side = "child")
    /\ pc = "fetchAllIndexes" =>
           AttributeKeysCreated(collections[ci].id)
               = AttributeKeysToReplay(collections[ci].attributes)

\* C8 witness: createAttributes has returned for a collection that lists a
\* child-side relationship first, and the attribute after it was submitted.
C8_Witness ==
    /\ pc = "fetchAllIndexes"
    /\ collections[ci].id = "packaging_records"
    /\ collections[ci].attributes[1].side = "child"
    /\ AttributeKeysCreated("packaging_records") = <<"waybill_number">>

\* C9: delete-collection calls are issued only in `full` and
\* `structure-only`; there, once cloneDatabase has begun, one delete has been
\* attempted for every collection the destination held, and every delete
\* precedes every create-collection call.
C9_DropOnlyBeforeStructure ==
    /\ Issued("deleteCollection") => cloneMode \in {"full", "structure-only"}
    /\ \A i \in 1..Len(calls) : \A j \in 1..Len(calls) :
           (calls[i].op = "deleteCollection" /\ calls[j].op = "createCollection")
           => i < j
    /\ (/\ cloneMode \in {"full", "structure-only"}
        /\ \E j \in 1..Len(calls) :
               calls[j].op = "listCollections" /\ calls[j].db = "source")
       => [j \in 1..Len(CallsOf("deleteCollection")) |->
               CallsOf("deleteCollection")[j].coll] = destAtStart.collections

\* C9 witness: a `full` run deleted both destination collections and went on
\* to create a collection.
C9_Witness ==
    /\ cloneMode = "full"
    /\ Len(CallsOf("deleteCollection")) = 2
    /\ Issued("createCollection")

\* C10: schema-creation calls are issued only in `full` and `structure-only`,
\* create-document calls only in `full`, `data-only` and `missing-only`.
C10_ModeSelectsPhases ==
    \A j \in 1..Len(calls) :
        /\ calls[j].op \in {"createCollection", "createAttribute", "createIndex"}
               => cloneMode \in {"full", "structure-only"}
        /\ calls[j].op = "createDocument"
               => cloneMode \in {"full", "data-only", "missing-only"}

\* C10 witness: a `structure-only` run has ended after creating a collection,
\* an attribute and an index, with no document written.
C10_Witness ==
    /\ pc = "done"
    /\ cloneMode = "structure-only"
    /\ Issued("createCollection") /\ Issued("createAttribute") /\ Issued("createIndex")
    /\ ~Issued("createDocument")

\* the documents of a sequence of per-collection queues, in writing order
RECURSIVE WritesOf(_)
WritesOf(queue) ==
    IF queue = <<>> THEN <<>>
    ELSE [j \in 1..Len(Head(queue).documents) |->
             [coll |-> Head(queue).collectionId,
              document |-> Head(queue).documents[j]]] \o WritesOf(Tail(queue))

SourceWrites ==
    WritesOf([c \in 1..Len(source) |->
                 [collectionId |-> source[c].id, documents |-> source[c].documents]])

\* C11: in `full` and `data-only` the create-document calls are, in order and
\* one each, those of the source documents: addressed to the destination and
\* to the collection of the document, carrying the sanitized document (no
\* reserved key in the field map) under an identifier that is neither a
\* source document's nor an earlier call's; a run that ends normally has
\* issued all of them.
C11_OneCreatePerSourceDocument ==
    cloneMode \in {"full", "data-only"} =>
        LET made == CallsOf("createDocument")
        IN  /\ Len(made) <= Len(SourceWrites)
            /\ \A j \in 1..Len(made) :
                   /\ made[j].db = "dest"
                   /\ made[j].coll = SourceWrites[j].coll
                   /\ made[j].data = cleanDocumentData(SourceWrites[j].document)
                   /\ Keys(made[j].data) \cap systemFields = {}
                   /\ \A h \in 1..Len(SourceWrites) :
                          Str(made[j].key) # Get(SourceWrites[h].document, "$id")
                   /\ \A h \in 1..(j - 1) : made[h].key # made[j].key
            /\ pc = "done" => Len(made) = Len(SourceWrites)

\* C11 witness: a `data-only` run over two collections with three documents
\* has ended with three create-document calls.
C11_Witness ==
    /\ pc = "done"
    /\ cloneMode = "data-only"
    /\ Len(source) = 2
    /\ Len(SourceWrites) = 3
    /\ Len(CallsOf("createDocument")) = 3

\* the fetch phase has listed the documents of every source collection
FetchPhaseDone ==
    /\ cloneData \/ missingOnly
    /\ Len(collections) > 0
    /\ Len(collectionDocs) = Len(collections)
    /\ \A c \in 1..Len(collections) :
           \E j \in 1..Len(calls) :
               /\ calls[j].op = "listDocuments" /\ calls[j].db = "source"
               /\ calls[j].coll = collections[c].id /\ calls[j].ok

\* C12: the snapshot exists only once the fetch phase is over, and from its
\* writing on it is absent only in a run that has ended normally with every
\* queued document submitted; a run that an exception ends after the
\* snapshot was written leaves it in place.
C12_SnapshotOutlivesAbortedWrite ==
    /\ cacheFile.present => FetchPhaseDone
    /\ pc \in {"readCacheFile", "buildQueue", "createDocument", "deleteCacheFile"}
           => cacheFile.present
    /\ (pc = "exit" /\ FetchPhaseDone) => cacheFile.present
    /\ pc = "done" =>
           /\ ~cacheFile.present
           /\ Len(CallsOf("createDocument")) = Len(WritesOf(processQueue))

\* C12 witness: the destination listing of the diff failed after the
\* snapshot was written; the run has ended and the snapshot is there.
C12_Witness ==
    /\ pc = "exit"
    /\ cloneMode = "missing-only"
    /\ cacheFile.present
    /\ calls[Len(calls)].op = "listDocuments"
    /\ calls[Len(calls)].db = "dest"
    /\ ~calls[Len(calls)].ok

\* the number of collections cloneCollectionStructure has returned for
Replicated == results.collections.success + results.collections.failed

\* the recorded result of replicating the collection is a failure
ReplicationFailed(id) ==
    \E j \in 1..Len(results.collections.errors) :
        results.collections.errors[j].collection = id

FailedCall(id, ops) ==
    \E j \in 1..Len(calls) : calls[j].coll = id /\ calls[j].op \in ops /\ ~calls[j].ok

\* the collection was created and every attribute createAttributes submits
\* was created
AttributesAllCreated(collection) ==
    /\ \E j \in 1..Len(calls) :
           /\ calls[j].op = "createCollection" /\ calls[j].coll = collection.id
           /\ calls[j].ok
    /\ ~FailedCall(collection.id, {"createAttribute"})
    /\ \A a \in 1..Len(collection.attributes) :
           \/ collection.attributes[a].type \in KnownTypes
           \/ (collection.attributes[a].type = "relationship"
               /\ collection.attributes[a].side = "child")

\* cloneCollectionStructure has returned and has not been entered again
LastResultInHand ==
    /\ Replicated >= 1
    /\ pc \notin {"fetchAllAttributes", "createAttributes", "waitForAttribute",
                  "fetchAllIndexes", "createIndexes", "waitForIndex"}

\* no index key is recorded among the collection and attribute errors, and
\* the index error list of the last result holds the failed create-index calls
IndexFailuresInIndexListOnly ==
    /\ \A j \in 1..Len(results.collections.attributeErrors) :
           \A h \in 1..Len(results.collections.attributeErrors[j].errors) :
               \A c \in 1..Len(collections) : \A x \in 1..Len(collections[c].indexes) :
                   results.collections.attributeErrors[j].errors[h].key
                       # collections[c].indexes[x].key
    /\ (LastResultInHand
        /\ ~FailedCall(collections[Replicated].id, {"listAttributes", "listIndexes"}))
       => [j \in 1..Len(idxResult.errors) |-> idxResult.errors[j].key]
              = LET failed == SelectSeq(calls, LAMBDA c :
                                  /\ c.op = "createIndex" /\ ~c.ok
                                  /\ c.coll = collections[Replicated].id)
                IN  [j \in 1..Len(failed) |-> failed[j].key]

\* C13 as stated: a replicated collection is a failure when a create-attribute
\* call failed, and a success when it was created and all its attribute
\* creations succeeded, whatever the create-index calls did; index failures
\* are in the index error list only.
C13_OnlyAttributeErrorsFail ==
    cloneStructure =>
        /\ \A c \in 1..Replicated :
               /\ FailedCall(collections[c].id, {"createAttribute"})
                      => ReplicationFailed(collections[c].id)
               /\ AttributesAllCreated(collections[c])
                      => ~ReplicationFailed(collections[c].id)
        /\ IndexFailuresInIndexListOnly

\* C13 amended: the same, the success being promised only when none of the
\* list calls of the replication (source attributes, readiness polls, source
\* indexes) failed.
C13_OnlyAttributeAndListErrorsFail ==
    cloneStructure =>
        /\ \A c \in 1..Replicated :
               /\ FailedCall(collections[c].id, {"createAttribute"})
                      => ReplicationFailed(collections[c].id)
               /\ (/\ AttributesAllCreated(collections[c])
                   /\ ~FailedCall(collections[c].id, {"listAttributes", "listIndexes"}))
                      => ~ReplicationFailed(collections[c].id)
        /\ IndexFailuresInIndexListOnly

\* C13 witness: packaging_records was replicated with its attribute created
\* and its create-index call failed; the result is a success and the index
\* error list names the index.
C13_Witness ==
    /\ cloneStructure
    /\ LastResultInHand
    /\ collections[Replicated].id = "packaging_records"
    /\ FailedCall("packaging_records", {"createIndex"})
    /\ ~ReplicationFailed("packaging_records")
    /\ Len(idxResult.errors) = 1
    /\ idxResult.errors[1].key = "idx_waybill"

\* C14: when the create-collection call of a collection has failed, the
\* collection is recorded as failed and no attribute list, create-attribute,
\* index list or create-index call is ever issued for it.
C14_FailedCollectionIsSkipped ==
    \A j \in 1..Len(calls) :
        (calls[j].op = "createCollection" /\ ~calls[j].ok) =>
            /\ ReplicationFailed(calls[j].coll)
            /\ \A h \in 1..Len(calls) :
                   calls[h].coll = calls[j].coll =>
                       calls[h].op \notin {"listAttributes", "createAttribute",
                                           "listIndexes", "createIndex"}

\* C14 witness: a `structure-only` run has ended; the creation of
\* packaging_records failed and the run went on to create notes.
C14_Witness ==
    /\ pc = "done"
    /\ cloneMode = "structure-only"
    /\ FailedCall("packaging_records", {"createCollection"})
    /\ \E j \in 1..Len(calls) :
           calls[j].op = "createCollection" /\ calls[j].coll = "notes" /\ calls[j].ok
    /\ \E j \in 1..Len(calls) :
           calls[j].op = "listAttributes" /\ calls[j].coll = "notes"

\* the document identifiers recorded as failed under a collection
RecordedFailures(id) ==
    LET errors == results.documents.errors
        under == {j \in 1..Len(errors) : errors[j].collection = id}
    IN  IF under = {} THEN <<>>
        ELSE LET entry == errors[CHOOSE j \in under : TRUE]
             IN  [h \in 1..Len(entry.errors) |-> entry.errors[h].documentId]

\* the identifiers of the queued documents of a collection whose
\* create-document call failed, in queue order
FailedWrites(id) ==
    LET made == CallsOf("createDocument")
        due == WritesOf(processQueue)
        failed == SelectSeq([j \in 1..Len(made) |-> j],
                            LAMBDA j : ~made[j].ok /\ made[j].coll = id)
    IN  [h \in 1..Len(failed) |-> Get(due[failed[h]].document, "$id")]

\* C15: the write loop submits the queued documents in order, one call each,
\* whatever the earlier calls returned; every failure is recorded under its
\* collection with the identifier of the source document, and when the loop
\* has ended success + failed is the number of queued documents.
C15_FailedWriteDoesNotAbort ==
    (pc \in {"createDocument", "deleteCacheFile", "done"} /\ (cloneData \/ missingOnly)) =>
        LET made == CallsOf("createDocument")
            due == WritesOf(processQueue)
        IN  /\ Len(made) <= Len(due)
            /\ \A j \in 1..Len(made) :
                   /\ made[j].coll = due[j].coll
                   /\ made[j].data = cleanDocumentData(due[j].document)
            /\ results.documents.success + results.documents.failed = Len(made)
            /\ results.documents.failed
                   = Cardinality({j \in 1..Len(made) : ~made[j].ok})
            /\ \A id \in CollectionIds : RecordedFailures(id) = FailedWrites(id)
            /\ pc = "createDocument" => Len(made) < Len(due)
            /\ pc # "createDocument" => Len(made) = Len(due)

\* C15 witness: the write loop has ended; a create-document call failed, a
\* later one succeeded, and both are counted.
C15_Witness ==
    /\ pc = "done"
    /\ \E i \in 1..Len(calls) : \E j \in 1..Len(calls) :
           /\ i < j
           /\ calls[i].op = "createDocument" /\ ~calls[i].ok
           /\ calls[j].op = "createDocument" /\ calls[j].ok
    /\ results.documents.failed = 1
    /\ results.documents.success >= 1
    /\ Len(RecordedFailures("packaging_records")) = 1

\* C16: at every point of a run at most one remote call is issued and not
\* yet answered.
C16_OneCallOutstanding == Cardinality(outstanding) <= 1

\* C17: a run ends before its final summary only when a database was not
\* found or the user cancelled; an error of a remote list, create or delete
\* call never ends it.
C17_RemoteErrorsNeverEndTheRun ==
    pc = "exit" =>
        \/ exitCode = 0
        \/ ~sourceExists
        \/ (~destExists /\ cloneMode # "export-csv")

\* createAttributes has gone past the attribute at position a of the
\* collection cloneCollectionStructure is replicating
AttributePassed(a) ==
    \/ pc = "createAttributes" /\ a < k
    \/ pc \in {"fetchAllIndexes", "createIndexes", "waitForIndex"}

\* the counters of createAttributes, running or returned
AttributeCounters == IF pc = "createAttributes" THEN acc ELSE attrResult

\* the keys of the successful create calls issued for a collection
Created(op, id) ==
    LET made == SelectSeq(calls, LAMBDA c : c.op = op /\ c.coll = id /\ c.ok)
    IN  [j \in 1..Len(made) |-> made[j].key]

\* C18: an attribute or index that is still not `available` when the
\* replicator has gone past it (its poll ran out of attempts) has no error
\* recorded and is counted among the successes, the replicator having gone
\* on to the next step; and a collection is recorded as failed only when one
\* of its calls failed or one of its attributes has an unknown type, never
\* because of a timeout.
C18_PollTimeoutIsNotAnError ==
    cloneStructure =>
        /\ \A a \in 1..Len(attributes) :
               (/\ AttributePassed(a)
                /\ Status(destAttributes, collections[ci].id, attributes[a].key)
                       = "processing")
               => /\ \A h \in 1..Len(AttributeCounters.errors) :
                         AttributeCounters.errors[h].key # attributes[a].key
                  /\ AttributeCounters.successCount
                         = Len(Created("createAttribute", collections[ci].id))
        /\ \A x \in 1..Len(indexes) :
               (/\ pc = "createIndexes" /\ x < k
                /\ Status(destIndexes, collections[ci].id, indexes[x].key) = "processing")
               => /\ \A h \in 1..Len(acc.errors) : acc.errors[h].key # indexes[x].key
                  /\ acc.successCount = Len(Created("createIndex", collections[ci].id))
        /\ \A x \in 1..Len(indexes) :
               (/\ LastResultInHand
                /\ indexes = collections[Replicated].indexes
                /\ Status(destIndexes, collections[Replicated].id, indexes[x].key)
                       = "processing"
                /\ ~FailedCall(collections[Replicated].id, {"listIndexes"}))
               => /\ \A h \in 1..Len(idxResult.errors) :
                         idxResult.errors[h].key # indexes[x].key
                  /\ idxResult.successCount
                         = Len(Created("createIndex", collections[Replicated].id))
        /\ \A c \in 1..Replicated :
               ReplicationFailed(collections[c].id)
               => \/ FailedCall(collections[c].id,
                                {"createCollection", "listAttributes",
                                 "createAttribute", "listIndexes"})
                  \/ \E a \in 1..Len(collections[c].attributes) :
                         /\ collections[c].attributes[a].type \notin KnownTypes
                         /\ ~(collections[c].attributes[a].type = "relationship"
                              /\ collections[c].attributes[a].side = "child")

\* C18 witness: a `structure-only` run has ended; the attribute and the index
\* of packaging_records are still being processed, every poll having run out,
\* and the collection is recorded as a success with no error.
C18_Witness ==
    /\ pc = "done"
    /\ cloneMode = "structure-only"
    /\ failures = 0
    /\ Status(destAttributes, "packaging_records", "waybill_number") = "processing"
    /\ Status(destIndexes, "packaging_records", "idx_waybill") = "processing"
    /\ ~ReplicationFailed("packaging_records")
    /\ results.collections.success >= 1
    /\ results.collections.attributeErrors = <<>>

\* C19: the step in which a prompt is declined or aborted (the run ends at a
\* prompt without a call and without a mode being chosen in that step) ends
\* the process with status 0, no delete-collection, create-collection,
\* create-attribute, create-index or create-document call having been
\* issued; and nothing is issued once the process has exited.
C19_DeclineExitsCleanly ==
    [][/\ (/\ pc \in {"selectCloneMode", "confirmMigration", "exportToCSV"}
           /\ pc' = "exit"
           /\ calls' = calls
           /\ cloneMode' = cloneMode)
          => /\ exitCode' = 0
             /\ \A j \in 1..Len(calls') :
                    calls'[j].op \notin {"deleteCollection", "createCollection",
                                         "createAttribute", "createIndex",
                                         "createDocument"}
       /\ pc = "exit" => (calls' = calls /\ destState' = destState)]_vars

\* C19 witness: a `full` run against a destination that holds collections
\* has ended at the confirmations with status 0 and the destination as it was.
C19_Witness ==
    /\ pc = "exit"
    /\ exitCode = 0
    /\ cloneMode = "full"
    /\ Len(destAtStart.collections) > 0
    /\ destCollections = destAtStart.collections
    /\ destDocuments = destAtStart.documents
    /\ \A j \in 1..Len(calls) : calls[j].op = "getDatabase"

OnlyDatabaseLookups == \A j \in 1..Len(calls) : calls[j].op = "getDatabase"

\* C20: without the source database the run ends with status 1 once the two
\* lookups are answered, no mode selected and no other call issued; without
\* the destination a run in a cloning mode ends with status 1 at the
\* selection of the mode, no other call issued, while an export goes on and
\* ends early only when cancelled or when a list call failed.
C20_MissingDatabaseIsFatal ==
    /\ ~sourceExists =>
           /\ cloneMode = ""
           /\ OnlyDatabaseLookups
           /\ pc \in {"main", "getDatabaseInfo", "exit"}
           /\ pc = "exit" => exitCode = 1
    /\ (/\ sourceExists /\ ~destExists
        /\ cloneMode \in {"full", "structure-only", "data-only", "missing-only"})
           => /\ pc = "exit"
              /\ exitCode = 1
              /\ OnlyDatabaseLookups
    /\ (sourceExists /\ ~destExists /\ cloneMode = "export-csv" /\ pc = "exit")
           => \/ exitCode = 0
              \/ /\ calls[Len(calls)].op \in {"listCollections", "listDocuments"}
                 /\ ~calls[Len(calls)].ok

\* C20 witness: the destination does not resolve and `full` was selected; the
\* run has ended with status 1 after the two lookups.
C20_Witness ==
    /\ sourceExists /\ ~destExists
    /\ cloneMode = "full"
    /\ pc = "exit"
    /\ exitCode = 1
    /\ Len(calls) = 2

\* the structure phase of cloneDatabase has ended
StructurePhaseOver ==
    /\ cloneStructure
    /\ \/ pc \in {"fetchAllDocuments", "writeCacheFile", "readCacheFile",
                  "buildQueue", "createDocument", "deleteCacheFile", "done"}
       \/ \E j \in 1..Len(calls) :
              calls[j].op = "listDocuments" /\ calls[j].db = "source"

\* C22: with structure replication requested, the create-collection calls
\* are those of the source collections in listing order, each issued when the
\* replication of the collection before it has returned, whatever its result;
\* when the structure phase has ended every source collection has been
\* attempted and success + failed is their number.
C22_EveryCollectionAttempted ==
    cloneStructure =>
        LET attempted == CallsOf("createCollection")
        IN  /\ Len(attempted) <= Len(source)
            /\ \A j \in 1..Len(attempted) : attempted[j].coll = source[j].id
            /\ Replicated <= Len(attempted)
            /\ Len(attempted) <= Replicated + 1
            /\ StructurePhaseOver =>
                   /\ Len(attempted) = Len(source)
                   /\ results.collections.success + results.collections.failed
                          = Len(source)

\* C22 witness: in a `full` run the structure phase has ended for two source
\* collections; the first was recorded as failed and the second was attempted.
C22_Witness ==
    /\ cloneMode = "full"
    /\ pc = "fetchAllDocuments"
    /\ Len(source) = 2
    /\ ReplicationFailed(source[1].id)
    /\ Len(CallsOf("createCollection")) = 2
    /\ results.collections.success + results.collections.failed = 2

(***************************************************************************)
(* Claims about the structure phase of one collection (SpecStructure).     *)
(***************************************************************************)
SourceCollection(id) == source[CHOOSE c \in 1..Len(source) : source[c].id = id]

KeyPosition(list, key) == CHOOSE i \in 1..Len(list) : list[i].key = key

\* the keys come in the order of the list
InListOrder(keys, list) ==
    \A i, j \in 1..Len(keys) :
        i < j => KeyPosition(list, keys[i]) < KeyPosition(list, keys[j])

\* the keys of the create calls issued for a collection, failed ones included
KeysOf(issued, op, id) ==
    LET made == SelectSeq(issued, LAMBDA c : c.op = op /\ c.coll = id)
    IN  [j \in 1..Len(made) |-> made[j].key]

Submitted(op, id) == KeysOf(calls, op, id)

\* the poll of the object created last has ended: it saw `available`, or it
\* used its last attempt
PollEnded(objects, id, keys, attempts) ==
    Len(keys) > 0 =>
        \/ Status(objects, id, keys[Len(keys)]) = "available"
        \/ retries + 1 >= attempts

\* C23: a create-attribute or create-index call is never issued while a
\* readiness poll is running; the create-attribute calls of a collection
\* follow the source attribute list and the create-index calls the source
\* index list; when one is issued the poll of the attribute (index) created
\* before it has ended, by `available` or by its last attempt; and no
\* create-attribute call follows a create-index call of the collection, the
\* first create-index call finding the last created attribute's poll ended.
C23_CreationsAreSequential ==
    [][LET last == calls'[Len(calls')]
           id == last.coll
       IN  (/\ Len(calls') = Len(calls) + 1
            /\ last.op \in {"createAttribute", "createIndex"})
           => /\ pc \notin {"waitForAttribute", "waitForIndex"}
              /\ last.op = "createAttribute"
                     => /\ InListOrder(KeysOf(calls', "createAttribute", id),
                                       SourceCollection(id).attributes)
                        /\ PollEnded(destAttributes, id,
                                     Created("createAttribute", id),
                                     MaxAttributeRetries)
                        /\ Submitted("createIndex", id) = <<>>
              /\ last.op = "createIndex"
                     => /\ InListOrder(KeysOf(calls', "createIndex", id),
                                       SourceCollection(id).indexes)
                        /\ IF Created("createIndex", id) = <<>>
                           THEN PollEnded(destAttributes, id,
                                          Created("createAttribute", id),
                                          MaxAttributeRetries)
                           ELSE PollEnded(destIndexes, id,
                                          Created("createIndex", id),
                                          MaxIndexRetries)]_vars

\* both attributes and both indexes were created, the first attribute's poll
\* having run out of attempts and the first index's having seen `available`
C23_Witness ==
    /\ pc = "done"
    /\ Created("createAttribute", "packaging_items") = <<"product_barcode", "scanned_at">>
    /\ Created("createIndex", "packaging_items") = <<"idx_barcode", "idx_scanned">>
    /\ Status(destAttributes, "packaging_items", "product_barcode") = "processing"
    /\ Status(destIndexes, "packaging_items", "idx_barcode") = "available"

\* C24: a poll takes at most 30 list requests for an attribute and 60 for an
\* index; an answered request that finds the key `available` ends the poll at
\* once, one that does not is followed by a further attempt while attempts
\* are left, and the one that uses the last attempt ends the poll with the
\* collection's replication going on, no error recorded; every poll ends.
C24_PollTerminates ==
    /\ [](pc = "waitForAttribute" => retries + 1 <= 30)
    /\ [](pc = "waitForIndex" => retries + 1 <= 60)
    /\ [][(/\ pc \in {"waitForAttribute", "waitForIndex"}
           /\ destAttributes' = destAttributes
           /\ destIndexes' = destIndexes
           /\ failures' = failures)
          => LET id == collections[ci].id
                 available ==
                     IF pc = "waitForAttribute"
                     THEN Status(destAttributes, id, attributes[k].key) = "available"
                     ELSE Status(destIndexes, id, indexes[k].key) = "available"
                 attempts == IF pc = "waitForAttribute" THEN 30 ELSE 60
                 goesOn ==
                     /\ calls' = calls
                     /\ IF pc = "waitForAttribute"
                        THEN /\ pc' \in {"createAttributes", "fetchAllIndexes"}
                             /\ results' = results
                        ELSE \/ /\ pc' = "createIndexes"
                                /\ results' = results
                             \/ /\ pc' = AfterCollection.pc
                                /\ idxResult'.errors = acc.errors
                                /\ results' = Recorded(results, collections[ci],
                                                       CollectionResult(attrResult, acc))
             IN  IF available \/ retries + 1 = attempts
                 THEN goesOn
                 ELSE /\ pc' = pc
                      /\ retries' = retries + 1
                      /\ calls' = calls]_vars
    /\ (pc = "waitForAttribute") ~> (pc # "waitForAttribute")
    /\ (pc = "waitForIndex") ~> (pc # "waitForIndex")

\* the poll of the second attribute ran out of attempts, that of the first
\* index saw `available`, and that of the second index is at its last attempt
C24_Witness ==
    /\ pc = "waitForIndex"
    /\ k = 2
    /\ retries + 1 = 60
    /\ Status(destAttributes, "packaging_items", "scanned_at") = "processing"
    /\ Status(destIndexes, "packaging_items", "idx_barcode") = "available"
    /\ Status(destIndexes, "packaging_items", "idx_scanned") = "processing"

\* C25: when the replication of a collection whose create-collection call
\* succeeded (and whose source attribute and index lists were obtained) has
\* returned, its create-attribute calls are one for each source attribute of
\* a known type that is not a child-side relationship, its create-index calls
\* one for each source index, in source order, and each failed create call
\* has its key in the attribute error list recorded for the collection or in
\* the index error list of its result.
C25_FailureDoesNotAbortSiblings ==
    \A c \in 1..Len(source) :
        LET id == source[c].id
        IN  (/\ pc = "done"
             /\ Created("createCollection", id) # <<>>
             /\ ~\E j \in 1..Len(calls) :
                    calls[j].db = "source" /\ calls[j].coll = id /\ ~calls[j].ok)
            => /\ Submitted("createAttribute", id)
                      = AttributeKeysToReplay(source[c].attributes)
               /\ Submitted("createIndex", id)
                      = [x \in 1..Len(source[c].indexes) |-> source[c].indexes[x].key]
               /\ \A j \in 1..Len(calls) :
                      (calls[j].coll = id /\ ~calls[j].ok)
                      => /\ calls[j].op = "createAttribute"
                            => \E e \in 1..Len(results.collections.attributeErrors) :
                                 /\ results.collections.attributeErrors[e].collection = id
                                 /\ \E h \in 1..Len(results.collections.attributeErrors[e].errors) :
                                        results.collections.attributeErrors[e].errors[h].key
                                            = calls[j].key
                         /\ (calls[j].op = "createIndex" /\ c = Replicated)
                            => \E h \in 1..Len(idxResult.errors) :
                                   idxResult.errors[h].key = calls[j].key

\* the number of documents of a queue or of a snapshot
DocumentCount(queue) == Len(WritesOf(queue))

\* C26: in `missing-only` each collection the Diff Engine handles adds to the
\* queue and to the skipped counter, together, as many documents as the
\* snapshot holds for it, the queued ones being among the collection's; a
\* data run that completes has success + failed + skipped equal to the number
\* of source documents fetched; in the other modes skipped stays 0 and the
\* queue that is written holds the snapshot's documents, collection by
\* collection.
C26_EveryDocumentIsCounted ==
    /\ [][(/\ missingOnly
           /\ pc = "buildQueue"
           /\ Len(processQueue') = Len(processQueue) + 1)
          => LET entry == processQueue'[Len(processQueue')]
                 snapshot == cacheFile.collections[Len(processQueue')]
             IN  /\ entry.collectionId = snapshot.collectionId
                 /\ Len(entry.documents)
                        + (results.documents.skipped' - results.documents.skipped)
                        = Len(snapshot.documents)
                 /\ \A d \in 1..Len(entry.documents) :
                        \E h \in 1..Len(snapshot.documents) :
                            snapshot.documents[h] = entry.documents[d]
                 /\ SubSeq(processQueue', 1, Len(processQueue)) = processQueue]_vars
    /\ []((pc = "done" /\ (cloneData \/ missingOnly))
          => /\ results.documents.success + results.documents.failed
                    + results.documents.skipped = DocumentCount(collectionDocs)
             /\ DocumentCount(collectionDocs) = Len(SourceWrites))
    /\ [](~missingOnly
          => /\ results.documents.skipped = 0
             /\ pc \in {"createDocument", "deleteCacheFile"}
                    => /\ Len(processQueue) = Len(collectionDocs)
                       /\ \A j \in 1..Len(processQueue) :
                              /\ processQueue[j].collectionId
                                     = collectionDocs[j].collectionId
                              /\ processQueue[j].documents
                                     = collectionDocs[j].documents)

\* a finished `missing-only` run over two collections that skipped one
\* document, wrote one and failed to write another
C26_Witness ==
    /\ missingOnly
    /\ pc = "done"
    /\ Len(processQueue) = 2
    /\ results.documents.skipped = 1
    /\ results.documents.success = 1
    /\ results.documents.failed = 1

SchemaCalls ==
    {"createCollection", "listAttributes", "createAttribute", "listIndexes",
     "createIndex"}

IsSourceDocumentList(c) == c.op = "listDocuments" /\ c.db = "source"

\* the snapshot holds what was fetched for each of the source collections
SnapshotOfEveryCollection ==
    /\ cacheFile.present
    /\ Len(cacheFile.collections) = Len(collections)
    /\ \A c \in 1..Len(collections) :
           /\ cacheFile.collections[c].collectionId = collections[c].id
           /\ cacheFile.collections[c].documents = collectionDocs[c].documents
           /\ \E j \in 1..Len(calls) :
                  /\ IsSourceDocumentList(calls[j]) /\ calls[j].ok
                  /\ calls[j].coll = collections[c].id

\* C28: a call of the structure phase is issued only while no source document
\* list request has been; the snapshot is written only when the documents of
\* every source collection have been fetched, and no source document list
\* request follows it; a create-document call or a destination document
\* listing is issued only when the snapshot of every collection has been
\* written and read back.
C28_PhasesDoNotInterleave ==
    /\ [][\A n \in (Len(calls) + 1)..Len(calls') :
              /\ calls'[n].op \in SchemaCalls
                     => \A j \in 1..Len(calls) : ~IsSourceDocumentList(calls[j])
              /\ (IsSourceDocumentList(calls'[n]) /\ cloneMode # "export-csv")
                     => /\ pc = "fetchAllDocuments"
                        /\ ~cacheFile.present
              /\ (\/ calls'[n].op = "createDocument"
                  \/ calls'[n].op = "listDocuments" /\ calls'[n].db = "dest")
                     => /\ pc \in {"buildQueue", "createDocument"}
                        /\ SnapshotOfEveryCollection]_vars
    /\ [][(cacheFile' # cacheFile /\ cacheFile'.present)
          => /\ pc = "writeCacheFile"
             /\ SnapshotOfEveryCollection']_vars

\* a finished `full` run over two collections issued calls of each phase
C28_Witness ==
    /\ cloneMode = "full"
    /\ pc = "done"
    /\ Len(source) = 2
    /\ Issued("createAttribute") /\ Issued("createIndex")
    /\ Len(CallsOf("createDocument")) = 3
    /\ ~cacheFile.present

\* C30: a `full` run that completes has fetched the documents of every
\* source collection, once, and issued one create-document call for each of
\* them, also for a collection whose replication was recorded as failed; and
\* a `full` run that has listed its collections ends early only by the error
\* of a document list request, never by a result of the structure phase.
C30_DataPhaseIgnoresStructureResults ==
    cloneMode = "full"
    => /\ pc = "done"
              => \A c \in 1..Len(source) :
                     LET id == source[c].id
                     IN  /\ Len(SelectSeq(calls, LAMBDA x :
                                   /\ IsSourceDocumentList(x)
                                   /\ x.coll = id /\ x.ok)) = 1
                         /\ Len(SelectSeq(calls, LAMBDA x :
                                   x.op = "createDocument" /\ x.coll = id))
                                = Len(source[c].documents)
       /\ (pc = "exit" /\ Len(collections) > 0)
              => \E j \in 1..Len(calls) :
                     IsSourceDocumentList(calls[j]) /\ ~calls[j].ok

\* a finished `full` run in which the replication of packaging_records was
\* recorded as failed by an attribute and its two documents were written
C30_Witness ==
    /\ cloneMode = "full"
    /\ pc = "done"
    /\ ReplicationFailed("packaging_records")
    /\ FailedCall("packaging_records", {"createAttribute"})
    /\ Len(SelectSeq(calls, LAMBDA x :
               /\ x.op = "createDocument" /\ x.coll = "packaging_records"
               /\ x.ok)) = 2

\* the keys of the indexes of the collection that cover an attribute whose
\* create call failed
IndexesOnFailedAttributes(collection) ==
    {collection.indexes[x].key : x \in
        {y \in 1..Len(collection.indexes) :
            \E a \in 1..Len(collection.indexes[y].attributes) :
                \E j \in 1..Len(calls) :
                    /\ calls[j].op = "createAttribute" /\ ~calls[j].ok
                    /\ calls[j].coll = collection.id
                    /\ calls[j].key = collection.indexes[y].attributes[a]}}

\* C31: when a collection whose create-collection call succeeded is recorded
\* as failed, a create-attribute call of it having failed (and none of its
\* list requests), its source indexes have been listed and one create-index
\* call has been issued for each of them, in source order, the indexes over
\* a failed attribute included.
C31_IndexPhaseRunsAfterFailedAttributes ==
    \A c \in 1..Len(source) :
        LET id == source[c].id
        IN  (/\ ReplicationFailed(id)
             /\ Created("createCollection", id) # <<>>
             /\ FailedCall(id, {"createAttribute"})
             /\ ~FailedCall(id, {"listAttributes", "listIndexes"}))
            => /\ \E j \in 1..Len(calls) :
                      /\ calls[j].op = "listIndexes" /\ calls[j].db = "source"
                      /\ calls[j].coll = id /\ calls[j].ok
               /\ Submitted("createIndex", id)
                      = [x \in 1..Len(source[c].indexes) |-> source[c].indexes[x].key]
               /\ IndexesOnFailedAttributes(source[c])
                      \subseteq {Submitted("createIndex", id)[x] :
                                    x \in 1..Len(Submitted("createIndex", id))}

\* the create call of product_barcode failed, and both indexes were created,
\* idx_barcode over the failed attribute among them
C31_Witness ==
    /\ ReplicationFailed("packaging_items")
    /\ \E j \in 1..Len(calls) :
           /\ calls[j].op = "createAttribute" /\ ~calls[j].ok
           /\ calls[j].key = "product_barcode"
    /\ IndexesOnFailedAttributes(PackagingItems) = {"idx_barcode"}
    /\ Created("createIndex", "packaging_items") = <<"idx_barcode", "idx_scanned">>

CreateCalls == {"createCollection", "createAttribute", "createIndex", "createDocument"}

SnapshotSteps ==
    {"fetchAllDocuments", "writeCacheFile", "readCacheFile", "buildQueue",
     "createDocument", "deleteCacheFile"}

\* C34: over a source database that exists and has no collection, a run
\* issues no create call, fetches no documents and never reaches the writing,
\* reading or deleting of the snapshot; in `data-only` and `missing-only` it
\* issues no delete call either and the destination stays as it was; in
\* `full` and `structure-only` a run that ends normally has issued, before
\* listing the source, one delete call for each collection the destination
\* held, and the destination holds those whose delete call failed.
C34_EmptySourceRun ==
    (sourceExists /\ source = <<>>)
    => /\ \A j \in 1..Len(calls) : calls[j].op \notin CreateCalls
       /\ ~cacheFile.present
       /\ collectionDocs = <<>>
       /\ pc \notin SnapshotSteps
       /\ cloneMode \in {"data-only", "missing-only"}
              => /\ ~Issued("deleteCollection")
                 /\ destCollections = destAtStart.collections
                 /\ destDocuments = destAtStart.documents
       /\ (cloneMode \in {"full", "structure-only"} /\ pc = "done")
              => /\ [j \in 1..Len(CallsOf("deleteCollection")) |->
                        CallsOf("deleteCollection")[j].coll] = destAtStart.collections
                 /\ destCollections =
                        SelectSeq(destAtStart.collections,
                                  LAMBDA id : FailedCall(id, {"deleteCollection"}))
                 /\ calls[Len(calls)] =
                        Call("listCollections", "source", "", "", Null, TRUE)

\* a `full` run over an empty source deleted the two collections of the
\* destination and ended
C34_Witness ==
    /\ sourceExists /\ source = <<>>
    /\ cloneMode = "full"
    /\ pc = "done"
    /\ Len(destAtStart.collections) = 2
    /\ Len(CallsOf("deleteCollection")) = 2
    /\ destCollections = <<>>

(***************************************************************************)
(* Claims about `missing-only` (SpecRerun).                                *)
(***************************************************************************)
\* the calls of the current run: those after the last restart
CurrentRunCalls ==
    LET starts == {j \in 1..Len(calls) : calls[j].op = "run"}
        from == IF starts = {} THEN 0
                ELSE CHOOSE j \in starts : \A h \in starts : h <= j
    IN  SubSeq(calls, from + 1, Len(calls))

\* C6: the second of two `missing-only` runs over an unchanged source issues
\* no create-document call (stated for runs in which no remote call returned
\* an error, so that the first run wrote every document it queued).
C6_SecondRunCreatesNothing ==
    (runs = 1 /\ failures = 0) =>
        \A j \in 1..Len(CurrentRunCalls) : CurrentRunCalls[j].op # "createDocument"

\* the queue is built and no document of this run has been written yet
QueueJustBuilt ==
    \/ /\ pc = "createDocument"
       /\ di = 1
       /\ ci = NextQueue(processQueue, 0)
    \/ /\ pc = "deleteCacheFile"
       /\ \A j \in 1..Len(processQueue) : Len(processQueue[j].documents) = 0

\* the document carries the identifier field: a non-empty string
CarriesIdentifier(doc, field) ==
    Get(doc, field).t = "str" /\ Get(doc, field).s # ""

\* C7: for a collection with a configured identifier field whose documents
\* all carry it, the documents queued as missing are exactly the source
\* documents whose identifier is the identifier of no destination document.
C7_MissingAreExactlyTheAbsentIdentifiers ==
    (/\ QueueJustBuilt
     /\ Len(processQueue) = 1
     /\ processQueue[1].collectionId = "packaging_records"
     /\ \A j \in 1..Len(cacheFile.collections[1].documents) :
            CarriesIdentifier(cacheFile.collections[1].documents[j], "waybill_number")
     /\ \A j \in 1..Len(destDocuments["packaging_records"]) :
            CarriesIdentifier(destDocuments["packaging_records"][j], "waybill_number"))
    => processQueue[1].documents =
           SelectSeq(cacheFile.collections[1].documents,
                     LAMBDA doc :
                         \A j \in 1..Len(destDocuments["packaging_records"]) :
                             Get(destDocuments["packaging_records"][j], "waybill_number")
                                 # Get(doc, "waybill_number"))

\* C7 witness: the destination holds identifiers a and b, the source a, b
\* and c, and the queue holds the document with identifier c alone.
C7_Witness ==
    /\ QueueJustBuilt
    /\ runs = 0
    /\ Len(processQueue) = 1
    /\ Len(destDocuments["packaging_records"]) = 2
    /\ \A j \in 1..2 :
           Get(destDocuments["packaging_records"][j], "waybill_number") = Str(<<"a", "b">>[j])
    /\ Len(cacheFile.collections[1].documents) = 3
    /\ \A j \in 1..3 :
           Get(cacheFile.collections[1].documents[j], "waybill_number")
               = Str(<<"a", "b", "c">>[j])
    /\ Len(processQueue[1].documents) = 1
    /\ Get(processQueue[1].documents[1], "waybill_number") = Str("c")


\* the key of a document: its identifier when the collection has an
\* identifier field and the document carries it, else its sanitized fields
DocumentKey(doc, field) ==
    IF field # NoField /\ CarriesIdentifier(doc, field)
    THEN [identifier |-> Get(doc, field), content |-> Null]
    ELSE [identifier |-> Null, content |-> cleanDocumentData(doc)]

\* C27: the documents queued as missing are exactly the source documents
\* whose key is the key of no destination document, the key of a document
\* being computed in the same way on both sides; for a collection with no
\* identifier field they are exactly the source documents whose sanitized
\* fields are those of no destination document.
C27_SameKeyOnBothSides ==
    (QueueJustBuilt /\ Len(processQueue) = 1)
    => LET id == processQueue[1].collectionId
           field == getUniqueIdentifierField(id)
           theirs == cacheFile.collections[1].documents
           ours == destDocuments[id]
       IN  /\ processQueue[1].documents =
                  SelectSeq(theirs, LAMBDA doc :
                      \A j \in 1..Len(ours) :
                          DocumentKey(ours[j], field) # DocumentKey(doc, field))
           /\ field = NoField
                  => processQueue[1].documents =
                         SelectSeq(theirs, LAMBDA doc :
                             \A j \in 1..Len(ours) :
                                 cleanDocumentData(ours[j]) # cleanDocumentData(doc))

\* of two notes, the one with the fields of a destination document is
\* skipped, and the one that differs from a destination document by one more
\* field there is queued
C27_Witness ==
    /\ QueueJustBuilt
    /\ runs = 0
    /\ processQueue[1].collectionId = "notes"
    /\ cacheFile.collections[1].documents = << NoteDoc("n1", "hello"), NoteDoc("n3", "bye") >>
    /\ Len(destDocuments["notes"]) = 3
    /\ processQueue[1].documents = << NoteDoc("n3", "bye") >>


\* the create-document calls of the current run
CurrentRunWrites == SelectSeq(CurrentRunCalls, LAMBDA c : c.op = "createDocument")

\* C32: when the queue of a run is built the run has written nothing, so
\* the documents are classified against the destination as it was before
\* the run (in the first run, the destination at the start); two source
\* documents with the same key, which no destination document has, are then
\* both in the queue; writing a document does not change the queue; and a
\* run that has gone through its queue has issued one create-document call
\* for each queued document, in order, the documents with a shared key
\* included.
C32_KeysAreThoseBeforeTheRun ==
    /\ [](QueueJustBuilt
          => /\ CurrentRunWrites = <<>>
             /\ runs = 0 => destDocuments = destAtStart.documents
             /\ LET id == processQueue[1].collectionId
                    field == getUniqueIdentifierField(id)
                    theirs == cacheFile.collections[1].documents
                    ours == destDocuments[id]
                    queued == processQueue[1].documents
                IN  \A i, j \in 1..Len(theirs) :
                        (/\ i # j
                         /\ DocumentKey(theirs[i], field) = DocumentKey(theirs[j], field)
                         /\ \A e \in 1..Len(ours) :
                                DocumentKey(ours[e], field) # DocumentKey(theirs[i], field))
                        => /\ \E q \in 1..Len(queued) : queued[q] = theirs[i]
                           /\ \E q \in 1..Len(queued) : queued[q] = theirs[j])
    /\ [][pc = "createDocument" => processQueue' = processQueue]_vars
    /\ [](pc \in {"deleteCacheFile", "done"}
          => /\ Len(CurrentRunWrites) = DocumentCount(processQueue)
             /\ \A w \in 1..Len(CurrentRunWrites) :
                    /\ CurrentRunWrites[w].coll = WritesOf(processQueue)[w].coll
                    /\ CurrentRunWrites[w].data
                           = cleanDocumentData(WritesOf(processQueue)[w].document))

\* the first run found the identifier a in two source documents and in no
\* destination document, and wrote both
C32_Witness ==
    /\ pc = "done"
    /\ runs = 0
    /\ source[1].documents = << SourceDoc("s1", Str("a"), "x"), SourceDoc("s4", Str("a"), "z") >>
    /\ destAtStart.documents["packaging_records"] = <<>>
    /\ Len(destDocuments["packaging_records"]) = 2
    /\ \A j \in 1..2 :
           Get(destDocuments["packaging_records"][j], "waybill_number") = Str("a")

=============================================================================
